---------------------------- MODULE Spec2Model ----------------------------
(***************************************************************************)
(* State-history engine and model-checking driver of the orchestration     *)
(* model checker (jeffa5/model-checked-orchestration).                     *)
(*                                                                         *)
(* Conventions.  Rust vectors are sequences, so a Rust index i is the      *)
(* index i + 1 here, and an index of 0 stands for "not found" (the Err of  *)
(* binary_search, on which the code calls unwrap).  Option::None of a      *)
(* node id is NoNode.  A BTreeMap is a function whose DOMAIN is the key    *)
(* set.  A panic of the code is recorded in err and stops the run.         *)
(*                                                                         *)
(* The source tree holds two OptimisticLinearHistory implementations:      *)
(* src/state.rs (no commit point) and src/state/history/optimistic.rs      *)
(* (commit_every).  Both are modelled, as kinds "OptimisticLinearState"    *)
(* and "OptimisticLinear".  Likewise StrongHistory (src/state.rs) is kind  *)
(* "Strong" and LinearizableHistory (history/linearizable.rs) is kind      *)
(* "Linearizable".                                                         *)
(***************************************************************************)
EXTENDS Integers, Sequences, FiniteSets, TLC

\* ------------------------------------------------------------------ bounds
\* A run makes at most MaxWrites calls of add_change, so revisions stay in 0..MaxWrites.
MaxWrites == 4
\* The parameter of BoundedStaleness(k) and of commit_every ranges over 0..MaxParam.
MaxParam == 2
\* A run makes at most MaxCalls calls on a Resources collection.
MaxCalls == 3
\* A fairly scheduled run of the driver has at most MaxCrashes NodeCrash faults.
MaxCrashes == 4
\* Completion indexes of the interval lists that are merged: 0..MaxIndex.
MaxIndex == 3

\* OrchestrationModelCfg::into_abstract_model: the nodes first, then the schedulers.
\* A controller's id is its index (from one here).
Controllers == <<"Node", "Scheduler">>
\* Session ids (the `from` of add_change): controller indexes.
Sessions == 1..Len(Controllers)
NodeIds == {i \in Sessions : Controllers[i] = "Node"}
PodIds == {1, 2}
NoNode == 0
\* An absent entry of the sessions BTreeMap.
NoSession == -1

VARIABLES
    kind,       \* the StateHistory variant
    param,      \* BoundedHistory.k / OptimisticLinearHistory.commit_every
    states,     \* the retained views (last_k_states / states / <<state>>)
    sessions,   \* SessionHistory.sessions
    err,        \* "none", or the panic that ended the run
    issued,     \* ghost: every revision retained or returned so far
    writes,     \* ghost: the number of add_change calls that returned
    local,      \* the controllers' local states (NodeState.running), by controller
    last,       \* ghost: the last add_change (its inputs, pre-state, result)
    crashes,    \* ghost: the number of NodeCrash actions taken
    resources,  \* a Resources<T> collection: the imbl::Vector of its entries
    written,    \* ghost: by name, the revision of the last successful insert since
                \* the name was last removed (NoRevision: none)
    rlast,      \* ghost: the last call on the collection (its inputs and result)
    cluster,    \* the view the Job controller works on: controllers, the Job, its pods
    jlast,      \* ghost: the last JobController::step (the view it saw, what it computed)
    merged,     \* the last call of merge: its arguments and results
    call        \* the last call of a function of the Job controller on drawn arguments

historyVars == <<kind, param, states, sessions, err, issued, writes, local, last, crashes>>
resourceVars == <<resources, written, rlast>>
jobVars == <<cluster, jlast>>
intervalVars == <<merged, call>>
vars == <<historyVars, resourceVars, jobVars, intervalVars>>

Kinds ==
    {"Strong", "Linearizable", "Bounded", "Session", "Eventual",
     "OptimisticLinearState", "OptimisticLinear"}

\* ------------------------------------------------------------- operations
NodeJoin(i) == [type |-> "NodeJoin", id |-> i, pod |-> 0]
ControllerJoin(i) == [type |-> "ControllerJoin", id |-> i, pod |-> 0]
NewPod(p) == [type |-> "NewPod", id |-> 0, pod |-> p]
SchedulePod(p, n) == [type |-> "SchedulePod", id |-> n, pod |-> p]
RunPod(p, n) == [type |-> "RunPod", id |-> n, pod |-> p]
NodeCrashOp(n) == [type |-> "NodeCrash", id |-> n, pod |-> 0]

Change(rev, op) == [revision |-> rev, operation |-> op]

\* ---------------------------------------------------------------- StateView
EmptyMap == [x \in {} |-> 0]

MapInsert(m, key, v) == [x \in DOMAIN m \cup {key} |-> IF x = key THEN v ELSE m[x]]

MapRemove(m, key) == [x \in DOMAIN m \ {key} |-> m[x]]

MapRetain(m, keep) == [x \in {y \in DOMAIN m : y \in keep} |-> m[x]]

DefaultView == [revision |-> 0, nodes |-> EmptyMap, controllers |-> {}, pods |-> EmptyMap]

\* RunPod unwraps the node lookup.
ApplyPanics(view, op) == op.type = "RunPod" /\ op.id \notin DOMAIN view.nodes

\* An apply_change whose NodeCrash removes the node and keeps its pods.
ApplyOperation_KeepPods(view, op) ==
    CASE op.type = "NodeJoin" ->
            [view EXCEPT !.nodes = MapInsert(view.nodes, op.id, [running |-> {}, ready |-> TRUE])]
      [] op.type = "ControllerJoin" ->
            [view EXCEPT !.controllers = view.controllers \cup {op.id}]
      [] op.type = "NewPod" ->
            [view EXCEPT !.pods = MapInsert(view.pods, op.pod, [node_name |-> NoNode])]
      [] op.type = "SchedulePod" ->
            IF op.pod \in DOMAIN view.pods
            THEN [view EXCEPT !.pods[op.pod].node_name = op.id]
            ELSE view
      [] op.type = "RunPod" ->
            IF op.id \in DOMAIN view.nodes
            THEN [view EXCEPT !.nodes[op.id].running = view.nodes[op.id].running \cup {op.pod}]
            ELSE view
      [] op.type = "NodeCrash" ->
            [view EXCEPT !.nodes = MapRemove(view.nodes, op.id)]

\* The match of apply_change, without the revision.
ApplyOperation(view, op) ==
    CASE op.type = "NodeJoin" ->
            [view EXCEPT !.nodes = MapInsert(view.nodes, op.id, [running |-> {}, ready |-> TRUE])]
      [] op.type = "ControllerJoin" ->
            [view EXCEPT !.controllers = view.controllers \cup {op.id}]
      [] op.type = "NewPod" ->
            [view EXCEPT !.pods = MapInsert(view.pods, op.pod, [node_name |-> NoNode])]
      [] op.type = "SchedulePod" ->
            IF op.pod \in DOMAIN view.pods
            THEN [view EXCEPT !.pods[op.pod].node_name = op.id]
            ELSE view
      [] op.type = "RunPod" ->
            IF op.id \in DOMAIN view.nodes
            THEN [view EXCEPT !.nodes[op.id].running = view.nodes[op.id].running \cup {op.pod}]
            ELSE view
      [] op.type = "NodeCrash" ->
            [view EXCEPT !.nodes = MapRemove(view.nodes, op.id),
                         !.pods = MapRetain(view.pods,
                                     {p \in DOMAIN view.pods : view.pods[p].node_name # op.id})]

\* StateView::apply_change of src/state.rs: the revision is the view's own, plus one.
apply_change(view, change) ==
    [ApplyOperation(view, change.operation) EXCEPT !.revision = view.revision + 1]

\* StateView::apply_operation(operation, new_revision): the caller gives the revision.
apply_operation(view, op, new_revision) ==
    [ApplyOperation(view, op) EXCEPT !.revision = new_revision]

\* Content of a view, the revision aside.
Content(view) == [nodes |-> view.nodes, controllers |-> view.controllers, pods |-> view.pods]


\* ------------------------------------------------------------------ helpers
Last(s) == s[Len(s)]

SetMin(S) == CHOOSE x \in S : \A y \in S : x <= y

RECURSIVE SetToSeq(_)
\* The keys of a BTreeMap or BTreeSet in iteration order.
SetToSeq(S) == IF S = {} THEN <<>> ELSE LET x == SetMin(S) IN <<x>> \o SetToSeq(S \ {x})

Revisions(s) == {s[i].revision : i \in 1..Len(s)}

\* slice::binary_search_by_key(&key, |s| s.revision) over s[lo+1 .. hi]:
\* the index of a view whose revision is key, 0 when the search ends without one.
RECURSIVE binary_search(_, _, _, _)
binary_search(s, key, lo, hi) ==
    IF lo >= hi THEN 0
    ELSE LET mid == lo + ((hi - lo) \div 2) IN
         IF s[mid + 1].revision = key THEN mid + 1
         ELSE IF s[mid + 1].revision < key THEN binary_search(s, key, mid + 1, hi)
         ELSE binary_search(s, key, lo, mid)

binary_search_by_key(s, key) == binary_search(s, key, 0, Len(s))

\* The result of one add_change: the new fields, the revision returned, and the
\* panic it ended in ("none" when it returned).
Result(s, m, rev) == [states |-> s, sessions |-> m, rev |-> rev, err |-> "none"]

Panic(s, m, what) == [states |-> s, sessions |-> m, rev |-> 0, err |-> what]

\* ------------------------------------------------------------ StrongHistory
StrongHistory_add_change(s, m, change) ==
    IF ApplyPanics(s[1], change.operation) THEN Panic(s, m, "apply")
    ELSE LET state == apply_change(s[1], change) IN
         Result(<<state>>, m, state.revision)

\* ------------------------------------------------------ LinearizableHistory
LinearizableHistory_add_change(s, m, change) ==
    IF ApplyPanics(s[1], change.operation) THEN Panic(s, m, "apply")
    ELSE LET new_revision == s[1].revision + 1
             state == apply_operation(s[1], change.operation, new_revision)
         IN Result(<<state>>, m, state.revision)

\* ----------------------------------------------------------- BoundedHistory
\* Mutant: evicts when len >= k, one view too early.
BoundedHistory_add_change_EvictEarly(k, s, m, change) ==
    IF ApplyPanics(Last(s), change.operation) THEN Panic(s, m, "apply")
    ELSE LET state == apply_change(Last(s), change)
             kept == IF Len(s) >= k /\ Len(s) > 1 THEN Tail(s) ELSE s
             s1 == Append(kept, state)
         IN Result(s1, m, Last(s1).revision)

BoundedHistory_add_change(k, s, m, change) ==
    IF ApplyPanics(Last(s), change.operation) THEN Panic(s, m, "apply")
    ELSE LET state == apply_change(Last(s), change)
             kept == IF Len(s) > k THEN Tail(s) ELSE s
             s1 == Append(kept, state)
         IN Result(s1, m, Last(s1).revision)

\* ----------------------------------------------------------- SessionHistory
\* The loop that removes the first view while its revision is below min_revision;
\* first().unwrap() on an emptied vector is the empty result.
\* Mutant: also removes the view at min_revision itself.
RECURSIVE SessionHistory_collect_Eager(_, _)
SessionHistory_collect_Eager(s, min_revision) ==
    IF Len(s) = 0 THEN s
    ELSE IF s[1].revision <= min_revision
         THEN SessionHistory_collect_Eager(Tail(s), min_revision)
         ELSE s

RECURSIVE SessionHistory_collect(_, _)
SessionHistory_collect(s, min_revision) ==
    IF Len(s) = 0 THEN s
    ELSE IF s[1].revision < min_revision THEN SessionHistory_collect(Tail(s), min_revision)
    ELSE s

\* Mutant: records the revision read before the push as the session's high-water.
SessionHistory_add_change_StaleMax(s, m, change, from) ==
    IF ApplyPanics(Last(s), change.operation) THEN Panic(s, m, "apply")
    ELSE LET state == apply_change(Last(s), change)
             s1 == Append(s, state)
             max == Last(s1).revision
             m1 == [m EXCEPT ![from] = Last(s).revision]
             min_revision == SetMin({m1[x] : x \in {y \in DOMAIN m1 : m1[y] # NoSession}})
             s2 == SessionHistory_collect(s1, min_revision)
         IN IF Len(s2) = 0 THEN Panic(s2, m1, "history") ELSE Result(s2, m1, max)

SessionHistory_add_change(s, m, change, from) ==
    IF ApplyPanics(Last(s), change.operation) THEN Panic(s, m, "apply")
    ELSE LET state == apply_change(Last(s), change)
             s1 == Append(s, state)
             max == Last(s1).revision
             m1 == [m EXCEPT ![from] = max]
             min_revision == SetMin({m1[x] : x \in {y \in DOMAIN m1 : m1[y] # NoSession}})
             s2 == SessionHistory_collect(s1, min_revision)
         IN IF Len(s2) = 0 THEN Panic(s2, m1, "history") ELSE Result(s2, m1, max)

\* ---------------------------------------------------------- EventualHistory
\* Mutant: applies the change to the view it was generated from, not to the latest.
EventualHistory_add_change_OnBaseline(s, m, change) ==
    IF ApplyPanics(Last(s), change.operation) THEN Panic(s, m, "apply")
    ELSE LET state == [apply_change(s[change.revision + 1], change)
                            EXCEPT !.revision = Last(s).revision + 1]
             s1 == Append(s, state)
         IN Result(s1, m, Last(s1).revision)

EventualHistory_add_change(s, m, change) ==
    IF ApplyPanics(Last(s), change.operation) THEN Panic(s, m, "apply")
    ELSE LET state == apply_change(Last(s), change)
             s1 == Append(s, state)
         IN Result(s1, m, Last(s1).revision)

\* ----------------------------------------------- OptimisticLinearHistory
\* Mutant: takes the element swapped into the hole (the tail) for the removed one.
swap_remove_Swapped(s, index) == s[Len(s)]

\* Vec::swap_remove(index) returns the element that was at index.
swap_remove(s, index) == s[index]

\* src/state.rs: no commit point; the new view's revision is the baseline's plus one.
OptimisticLinearState_add_change(s, m, change) ==
    LET index == binary_search_by_key(s, change.revision) IN
    IF index = 0 THEN Panic(s, m, "history")
    ELSE IF ApplyPanics(s[index], change.operation) THEN Panic(s, m, "apply")
    ELSE LET state_to_mutate == apply_change(s[index], change)
             s1 == IF index = Len(s)
                   THEN Append(s, state_to_mutate)
                   ELSE <<swap_remove(s, index), state_to_mutate>>
         IN Result(s1, m, Last(s1).revision)

\* Mutant: commits one view too early (>= for >).
OptimisticLinearHistory_add_change_CommitEarly(commit_every, s, m, change) ==
    LET index == binary_search_by_key(s, change.revision) IN
    IF index = 0 THEN Panic(s, m, "history")
    ELSE IF ApplyPanics(s[index], change.operation) THEN Panic(s, m, "apply")
    ELSE LET new_revision == Last(s).revision + 1
             new_state == apply_operation(s[index], change.operation, new_revision)
             s1 == IF index = Len(s)
                   THEN IF Len(s) >= commit_every
                        THEN <<new_state>>
                        ELSE Append(s, new_state)
                   ELSE <<swap_remove(s, index), new_state>>
         IN Result(s1, m, Last(s1).revision)

\* src/state/history/optimistic.rs: commit point every commit_every views; the new
\* view's revision is max_revision plus one.
OptimisticLinearHistory_add_change(commit_every, s, m, change) ==
    LET index == binary_search_by_key(s, change.revision) IN
    IF index = 0 THEN Panic(s, m, "history")
    ELSE IF ApplyPanics(s[index], change.operation) THEN Panic(s, m, "apply")
    ELSE LET new_revision == Last(s).revision + 1
             new_state == apply_operation(s[index], change.operation, new_revision)
             s1 == IF index = Len(s)
                   THEN IF Len(s) > commit_every
                        THEN <<new_state>>
                        ELSE Append(s, new_state)
                   ELSE <<swap_remove(s, index), new_state>>
         IN Result(s1, m, Last(s1).revision)

\* ------------------------------------------------------------- StateHistory
StateHistory_add_change(k, p, s, m, change, from) ==
    CASE k = "Strong" -> StrongHistory_add_change(s, m, change)
      [] k = "Linearizable" -> LinearizableHistory_add_change(s, m, change)
      [] k = "Bounded" -> BoundedHistory_add_change(p, s, m, change)
      [] k = "Session" -> SessionHistory_add_change(s, m, change, from)
      [] k = "Eventual" -> EventualHistory_add_change(s, m, change)
      [] k = "OptimisticLinearState" -> OptimisticLinearState_add_change(s, m, change)
      [] k = "OptimisticLinear" -> OptimisticLinearHistory_add_change(p, s, m, change)

max_revision(s) == Last(s).revision

\* Mutant: EventualHistory indexes by the revision taken as a position from one.
state_at_index_FromOne(k, s, revision) ==
    CASE k \in {"Strong", "Linearizable"} -> IF revision = s[1].revision THEN 1 ELSE 0
      [] k = "Eventual" -> IF revision >= 1 /\ revision <= Len(s) THEN revision ELSE 0
      [] OTHER -> binary_search_by_key(s, revision)

\* The index of the view state_at(revision) returns; 0 when it panics.
state_at_index(k, s, revision) ==
    CASE k \in {"Strong", "Linearizable"} -> IF revision = s[1].revision THEN 1 ELSE 0
      [] k = "Eventual" -> IF revision + 1 <= Len(s) THEN revision + 1 ELSE 0
      [] OTHER -> binary_search_by_key(s, revision)

state_at(k, s, revision) == s[state_at_index(k, s, revision)]

\* The Vec<Revision> of valid_revisions, in order.
valid_revisions_seq(k, s, m, from) ==
    LET min_revision == IF m[from] = NoSession THEN 0 ELSE m[from]
        RECURSIVE filter(_)
        filter(i) == IF i > Len(s) THEN <<>>
                     ELSE IF s[i].revision >= min_revision
                          THEN <<s[i].revision>> \o filter(i + 1)
                          ELSE filter(i + 1)
    IN CASE k \in {"Strong", "Linearizable"} -> <<s[1].revision>>
         [] k = "Session" -> filter(1)
         [] OTHER -> [i \in 1..Len(s) |-> s[i].revision]

valid_revisions(k, s, m, from) ==
    LET v == valid_revisions_seq(k, s, m, from) IN {v[i] : i \in 1..Len(v)}

\* ---------------------------------------------------------------- Resources
\* metadata.name of a resource: names compare as these numbers do.
Names == {1, 2, 3}
\* metadata.uid
Uids == {1, 2}
\* The values of a resource's spec (Spec::spec), compared by equality only.
SpecValues == {0, 1}
\* The values a caller puts in metadata.generation of the object it writes.
Generations == {0, 1}
\* No revision: a name never inserted, or removed since.
NoRevision == -1

Resource(name, uid, resource_version, generation, spec) ==
    [name |-> name, uid |-> uid, resource_version |-> resource_version,
     generation |-> generation, spec |-> spec]

\* Option::None of a resource.
NoResource == Resource(0, 0, "", 0, 0)

\* Revision::to_string: the canonical string form of a revision.
Revision_to_string(revision) == ToString(revision)

\* Vector::binary_search_by_key(&k, |t| t.metadata().name) over rs[lo+1 .. hi]:
\* Ok(p) or Err(p), p a Rust index.
RECURSIVE Resources_binary_search(_, _, _, _)
Resources_binary_search(rs, k, lo, hi) ==
    IF lo >= hi THEN [ok |-> FALSE, p |-> lo]
    ELSE LET mid == lo + ((hi - lo) \div 2) IN
         IF rs[mid + 1].name = k THEN [ok |-> TRUE, p |-> mid]
         ELSE IF rs[mid + 1].name < k THEN Resources_binary_search(rs, k, mid + 1, hi)
         ELSE Resources_binary_search(rs, k, lo, mid)

\* A plausible slip: new entries are pushed at the back.
get_insertion_pos_Back(rs, k) == Len(rs)

\* Resources::get_insertion_pos: a Rust index.
get_insertion_pos(rs, k) == Resources_binary_search(rs, k, 0, Len(rs)).p

\* Resources::get_pos: the index (from one) of the entry named k, 0 for None.
get_pos(rs, k) ==
    LET r == Resources_binary_search(rs, k, 0, Len(rs)) IN IF r.ok THEN r.p + 1 ELSE 0

\* Resources::get: the entry named name, NoResource for None.
Resources_get(rs, name) ==
    LET p == get_pos(rs, name) IN IF p = 0 THEN NoResource ELSE rs[p]

\* Resources::has
Resources_has(rs, name) == Resources_get(rs, name) # NoResource

\* Vector::insert(pos, x), pos a Rust index.
Vector_insert(rs, pos, x) == SubSeq(rs, 1, pos) \o <<x>> \o SubSeq(rs, pos + 1, Len(rs))

\* Vector::remove(p), p an index from one.
Vector_remove(rs, p) == SubSeq(rs, 1, p - 1) \o SubSeq(rs, p + 1, Len(rs))

\* A plausible slip: only the uid is compared, a stale resource_version is let through.
Resources_insert_UidOnly(rs, res, revision) ==
    LET p == get_pos(rs, res.name)
        stamped == [res EXCEPT !.resource_version = Revision_to_string(revision)]
    IN IF p # 0
       THEN IF rs[p].uid # res.uid THEN [ok |-> FALSE, resources |-> rs]
            ELSE [ok |-> TRUE,
                  resources |-> [rs EXCEPT ![p] =
                      IF res.spec # rs[p].spec
                      THEN [stamped EXCEPT !.generation = @ + 1] ELSE stamped]]
       ELSE [ok |-> TRUE,
             resources |-> Vector_insert(rs, get_insertion_pos(rs, res.name), stamped)]

\* A plausible slip: an update keeps the resource_version the caller sent.
Resources_insert_KeepVersion(rs, res, revision) ==
    LET p == get_pos(rs, res.name)
        stamped == [res EXCEPT !.resource_version = Revision_to_string(revision)]
    IN IF p # 0
       THEN IF rs[p].uid # res.uid THEN [ok |-> FALSE, resources |-> rs]
            ELSE IF res.resource_version # ""
                    /\ rs[p].resource_version # res.resource_version
            THEN [ok |-> FALSE, resources |-> rs]
            ELSE [ok |-> TRUE,
                  resources |-> [rs EXCEPT ![p] =
                      IF res.spec # rs[p].spec
                      THEN [res EXCEPT !.generation = @ + 1] ELSE res]]
       ELSE [ok |-> TRUE,
             resources |-> Vector_insert(rs, get_insertion_pos(rs, res.name), stamped)]

\* Resources::insert(res, revision): Ok or Err, and the collection it leaves.
Resources_insert(rs, res, revision) ==
    LET p == get_pos(rs, res.name)
        stamped == [res EXCEPT !.resource_version = Revision_to_string(revision)]
    IN IF p # 0
       THEN LET existing == rs[p] IN
            IF existing.uid # res.uid THEN [ok |-> FALSE, resources |-> rs]
            ELSE IF res.resource_version # ""
                    /\ existing.resource_version # res.resource_version
            THEN [ok |-> FALSE, resources |-> rs]
            ELSE [ok |-> TRUE,
                  resources |-> [rs EXCEPT ![p] =
                      IF res.spec # existing.spec
                      THEN [stamped EXCEPT !.generation = @ + 1] ELSE stamped]]
       ELSE [ok |-> TRUE,
             resources |-> Vector_insert(rs, get_insertion_pos(rs, res.name), stamped)]

\* Resources::remove(name)
Resources_remove(rs, name) ==
    LET p == get_pos(rs, name) IN IF p = 0 THEN rs ELSE Vector_remove(rs, p)

\* The closures retain is called with: keep the entries whose field has the value.
Predicates ==
    {[field |-> "uid", value |-> u] : u \in Uids}
        \cup {[field |-> "spec", value |-> v] : v \in SpecValues}

Keeps(f, r) == IF f.field = "uid" THEN r.uid = f.value ELSE r.spec = f.value

\* Resources::retain(f)
Resources_retain(rs, f) == LET keep(r) == Keeps(f, r) IN SelectSeq(rs, keep)

\* No call made on the collection yet.
NoCall ==
    [op |-> "none", name |-> 0, res |-> NoResource, revision |-> NoRevision,
     ok |-> TRUE, existing |-> NoResource]

\* Resources::default(), and the ghosts of a collection nothing was written to.
ResourcesDefault ==
    /\ resources = <<>>
    /\ written = [n \in Names |-> NoRevision]
    /\ rlast = NoCall

\* ------------------------------------------------------- completion indexes
\* A list of closed intervals (first, last) of completion indexes, as a sequence
\* of pairs.  None of Option<(u32, u32)>:
NoInterval == <<>>

\* The closure append_or_merge_with_last_interval of merge, on the pair of its
\* captured variables.  The assignment of its second branch is made to the copy
\* that Option::unwrap returns (the pair is Copy): neither last_interval nor the
\* interval already pushed to result changes.
append_or_merge_with_last_interval(acc, i) ==
    IF acc.last_interval = NoInterval \/ i[1] > acc.last_interval[2] + 1
    THEN [result |-> Append(acc.result, i), last_interval |-> i]
    ELSE IF acc.last_interval[2] < i[2]
    THEN acc
    ELSE acc

\* The loops of merge, from positions i and j (0-based) of the two lists.
RECURSIVE merge_from(_, _, _, _, _)
merge_from(oi, new_intervals, i, j, acc) ==
    IF i < Len(oi) /\ j < Len(new_intervals)
    THEN IF oi[i + 1][1] < new_intervals[j + 1][1]
         THEN merge_from(oi, new_intervals, i + 1, j,
                         append_or_merge_with_last_interval(acc, oi[i + 1]))
         ELSE merge_from(oi, new_intervals, i, j + 1,
                         append_or_merge_with_last_interval(acc, new_intervals[j + 1]))
    ELSE IF i < Len(oi)
    THEN merge_from(oi, new_intervals, i + 1, j,
                    append_or_merge_with_last_interval(acc, oi[i + 1]))
    ELSE IF j < Len(new_intervals)
    THEN merge_from(oi, new_intervals, i, j + 1,
                    append_or_merge_with_last_interval(acc, new_intervals[j + 1]))
    ELSE acc.result

merge(oi, new_intervals) ==
    merge_from(oi, new_intervals, 0, 0, [result |-> <<>>, last_interval |-> NoInterval])

\* with_ordered_indexes: every new index as the interval (index, index).
with_ordered_indexes(oi, new_indexes) ==
    merge(oi, [k \in 1..Len(new_indexes) |-> <<new_indexes[k], new_indexes[k]>>])

\* No merge made yet.
MergedDefault == merged = [acted |-> FALSE]

\* No call made yet.
CallDefault == call = [acted |-> FALSE]

\* ------------------------------------------------------------ jobs and pods
\* Option::None of spec.completions and of spec.backoff_limit.
NoValue == -1

\* Option<u32>::unwrap_or_default
unwrap_or_default(x) == IF x = NoValue THEN 0 ELSE x

\* A pod selected by the Job (and owned by it).  finalizer: JOB_TRACKING_FINALIZER
\* is among metadata.finalizers; deletion_timestamp: it is set; ready: the
\* Ready condition is true; restart_count: the sum over container statuses;
\* index: the value of the completion-index annotation, NoValue without one.
Pod(uid, phase, finalizer, deletion_timestamp, ready) ==
    [uid |-> uid, phase |-> phase, finalizer |-> finalizer,
     deletion_timestamp |-> deletion_timestamp, ready |-> ready, restart_count |-> 0,
     index |-> NoValue]

\* get_completion_index: the annotation parsed, None (NoValue) without one.
get_completion_index(pod) == pod.index

\* No action: the None of Option<JobControllerAction>.
NoAction == [type |-> "None", pod |-> Pod(0, "Pending", FALSE, FALSE, FALSE)]

JobControllerAction(type, pod) == [type |-> type, pod |-> pod]

\* util::is_pod_active: neither terminal nor terminating.
is_pod_active(pod) ==
    pod.phase \notin {"Succeeded", "Failed"} /\ ~pod.deletion_timestamp

\* util::filter_active_pods
filter_active_pods(pods) == SelectSeq(pods, is_pod_active)

\* util::is_pod_ready
is_pod_ready(pod) == pod.ready

\* util::is_pod_terminating
is_pod_terminating(pod) ==
    pod.phase \notin {"Succeeded", "Failed"} /\ pod.deletion_timestamp

has_job_tracking_finalizer(pod) == pod.finalizer

\* spec.pod_failure_policy.is_some()
only_replace_failed_pods(job) == job.spec.pod_failure_policy

is_pod_failed(pod, job) ==
    IF job.spec.pod_failure_policy THEN pod.phase = "Failed"
    ELSE IF pod.phase = "Failed" THEN TRUE
    ELSE IF only_replace_failed_pods(job) THEN pod.phase = "Failed"
    ELSE pod.deletion_timestamp /\ pod.phase # "Succeeded"

\* get_valid_pods_with_filter; f is "Succeeded" or "Failed".
get_valid_pods_with_filter(job, pods, uncounted_uids, expected_rm_finalizers, f) ==
    LET valid(p) ==
            IF \/ ~has_job_tracking_finalizer(p)
               \/ p.uid \in uncounted_uids
               \/ p.uid \in expected_rm_finalizers
            THEN FALSE
            ELSE IF /\ job.spec.completion_mode = "Indexed"
                    /\ \/ get_completion_index(p) = NoValue
                       \/ get_completion_index(p) >= unwrap_or_default(job.spec.completions)
            THEN FALSE
            ELSE IF f = "Succeeded" THEN p.phase = "Succeeded" ELSE is_pod_failed(p, job)
    IN SelectSeq(pods, valid)

\* get_new_finished_pods: the newly succeeded and the newly failed pods.
get_new_finished_pods(job, pods, uncounted, expected_rm_finalizers) ==
    [succeeded |-> get_valid_pods_with_filter(job, pods, uncounted.succeeded,
                                              expected_rm_finalizers, "Succeeded"),
     failed |-> get_valid_pods_with_filter(job, pods, uncounted.failed,
                                           expected_rm_finalizers, "Failed")]

\* non_ignored_failed_pods_count, no pod failure policy being set.
non_ignored_failed_pods_count(job, failed_pods) == Len(failed_pods)

count_ready_pods(pods) == Len(SelectSeq(pods, is_pod_ready))

\* find_condition_by_type: the index of the first condition of the type, 0 for None.
find_condition_by_type(conditions, cond_type) ==
    IF \E i \in 1..Len(conditions) : conditions[i].type = cond_type
    THEN SetMin({i \in 1..Len(conditions) : conditions[i].type = cond_type})
    ELSE 0

\* new_condition (the times aside)
new_condition(condition_type, status, reason) ==
    [type |-> condition_type, status |-> status, reason |-> reason]

NoCondition == new_condition("None", "False", "")

\* past_backoff_limit_on_failure
past_backoff_limit_on_failure(job, pods) ==
    IF job.spec.restart_policy # "OnFailure" THEN FALSE
    ELSE LET counted(p) == p.phase \in {"Running", "Pending"}
             live == SelectSeq(pods, counted)
             result == IF live = <<>> THEN 0
                       ELSE LET sum[i \in 0..Len(live)] ==
                                    IF i = 0 THEN 0 ELSE sum[i - 1] + live[i].restart_count
                            IN sum[Len(live)]
         IN IF job.spec.backoff_limit = 0 THEN result > 0
            ELSE result >= job.spec.backoff_limit

\* delete_active_pods: DeletePod of the first active pod.
delete_active_pods(job, pods) ==
    IF pods = <<>> THEN NoAction ELSE JobControllerAction("DeletePod", pods[1])

\* ensure_job_condition_status: the new list, or None (here: changed = FALSE).
ensure_job_condition_status(conditions, cond_type, status, reason) ==
    LET i == find_condition_by_type(conditions, cond_type) IN
    IF i # 0
    THEN IF conditions[i].status # status \/ conditions[i].reason # reason
         THEN [changed |-> TRUE,
               conditions |-> [conditions EXCEPT ![i] = new_condition(cond_type, status, reason)]]
         ELSE [changed |-> FALSE, conditions |-> conditions]
    ELSE IF status # "False"
         THEN [changed |-> TRUE,
               conditions |-> Append(conditions, new_condition(cond_type, status, reason))]
         ELSE [changed |-> FALSE, conditions |-> conditions]

\* backoff_limit.unwrap() of past_backoff_limit_on_failure panics on None.
past_backoff_limit_on_failure_panics(job) ==
    job.spec.restart_policy = "OnFailure" /\ job.spec.backoff_limit = NoValue

\* remove_tracking_finalizer_patch: UpdatePod of the pod without the finalizer.
remove_tracking_finalizer_patch(pod) ==
    IF ~has_job_tracking_finalizer(pod) THEN NoAction
    ELSE JobControllerAction("UpdatePod", [pod EXCEPT !.finalizer = FALSE])

\* delete_job_pods: the patch of the first pod if it has one, else its deletion.
delete_job_pods(job, pods) ==
    IF pods = <<>> THEN NoAction
    ELSE IF remove_tracking_finalizer_patch(pods[1]) # NoAction
         THEN remove_tracking_finalizer_patch(pods[1])
         ELSE JobControllerAction("DeletePod", pods[1])

\* PodPhase as u8, for the two phases an active pod of the model has.
PodPhase_as_u8(phase) == IF phase = "Pending" THEN 0 ELSE 1

\* The comparator of sort_active_pods returns Less.  The pods of a view are all
\* unassigned and have neither a ready time nor a creation time, so rules 1, 4
\* and 6 see equal values.
sort_active_pods_less(p1, p2) ==
    IF PodPhase_as_u8(p1.phase) # PodPhase_as_u8(p2.phase)
    THEN PodPhase_as_u8(p1.phase) < PodPhase_as_u8(p2.phase)
    ELSE IF is_pod_ready(p1) # is_pod_ready(p2)
    THEN ~is_pod_ready(p1)
    ELSE IF p1.restart_count # p2.restart_count
    THEN p1.restart_count > p2.restart_count
    ELSE FALSE

\* pods.sort_by_key(|p| get_completion_index(..)): None before every Some.
sort_by_index_less(p1, p2) == get_completion_index(p1) < get_completion_index(p2)

\* The comparator of a sort says Less: by "index" or by "active".
sort_less(by, p1, p2) ==
    IF by = "index" THEN sort_by_index_less(p1, p2) ELSE sort_active_pods_less(p1, p2)

\* slice::sort_by (stable) by insertion: x goes before the first element it is
\* less than.
RECURSIVE insert_sorted(_, _, _)
insert_sorted(sorted, x, by) ==
    IF sorted = <<>> THEN <<x>>
    ELSE IF sort_less(by, x, Last(sorted))
    THEN Append(insert_sorted(SubSeq(sorted, 1, Len(sorted) - 1), x, by), Last(sorted))
    ELSE Append(sorted, x)

RECURSIVE sort_by(_, _)
sort_by(pods, by) ==
    IF pods = <<>> THEN <<>>
    ELSE insert_sorted(sort_by(SubSeq(pods, 1, Len(pods) - 1), by), Last(pods), by)

sort_active_pods(pods) == sort_by(pods, "active")

\* A variant that keeps the last pod of a group and forgets the others.
append_pods_with_same_index_Forgetful(acc, pods, ix) ==
    IF ix = NoValue THEN [acc EXCEPT !.rm = @ \o pods]
    ELSE IF Len(pods) = 1 THEN [acc EXCEPT !.left = Append(@, pods[1])]
    ELSE [acc EXCEPT !.left = Append(@, Last(sort_active_pods(pods)))]

\* append_pods_with_same_index_for_removal_and_remaining on acc = [rm, left].
append_pods_with_same_index_for_removal_and_remaining(acc, pods, ix) ==
    IF ix = NoValue THEN [acc EXCEPT !.rm = @ \o pods]
    ELSE IF Len(pods) = 1 THEN [acc EXCEPT !.left = Append(@, pods[1])]
    ELSE LET sorted == sort_active_pods(pods) IN
         [acc EXCEPT !.rm = @ \o SubSeq(sorted, 1, Len(pods) - 1),
                     !.left = Append(@, Last(sorted))]

\* The loop of append_duplicated_index_pods_for_removal from position i (0-based)
\* over the sorted pods, and the call after it.
RECURSIVE append_duplicated_from(_, _, _, _, _, _, _)
append_duplicated_from(acc, pods, completions, i, last_index, first_repeat_pos, count_looped) ==
    IF i < Len(pods)
    THEN LET ix == get_completion_index(pods[i + 1]) IN
         IF ix # NoValue /\ ix >= completions
         THEN append_pods_with_same_index_for_removal_and_remaining(
                  [acc EXCEPT !.rm = @ \o SubSeq(pods, i + 1, Len(pods))],
                  SubSeq(pods, first_repeat_pos + 1, count_looped), last_index)
         ELSE IF ix # last_index
         THEN append_duplicated_from(
                  append_pods_with_same_index_for_removal_and_remaining(
                      acc, SubSeq(pods, first_repeat_pos + 1, i), last_index),
                  pods, completions, i + 1, ix, i, count_looped + 1)
         ELSE append_duplicated_from(acc, pods, completions, i + 1, last_index,
                                     first_repeat_pos, count_looped + 1)
    ELSE append_pods_with_same_index_for_removal_and_remaining(
             acc, SubSeq(pods, first_repeat_pos + 1, count_looped), last_index)

append_duplicated_index_pods_for_removal(pods, completions) ==
    append_duplicated_from([rm |-> <<>>, left |-> <<>>], sort_by(pods, "index"),
                           completions, 0, NoValue, 0, 0)

\* Vec::truncate
truncate(vec, len) == IF Len(vec) > len THEN SubSeq(vec, 1, len) ELSE vec

\* The end of active_pods_for_removal: rm, extended by the truncated left when it
\* is shorter than rm_at_least.
extend_with_left(split, rm_at_least) ==
    IF Len(split.rm) < rm_at_least
    THEN split.rm \o truncate(split.left, rm_at_least - Len(split.rm))
    ELSE split.rm

\* active_pods_for_removal: the duplicates and the pods without a valid index of
\* an Indexed job first, then the pods that are left, truncated (the sort of
\* left is a comment in the code).
active_pods_for_removal(job, pods, rm_at_least) ==
    extend_with_left(IF job.spec.completion_mode = "Indexed"
                     THEN append_duplicated_index_pods_for_removal(pods, job.spec.completions)
                     ELSE [rm |-> <<>>, left |-> pods],
                     rm_at_least)

\* parse_indexes_from_string: the text of status.completed_indexes is a list of
\* items "first-last" or "first", here the pairs (first, last).  Parsing stops at
\* an interval beyond completions and cuts one that reaches beyond it; an item
\* that starts right after the last one is dropped (li is a copy of the last
\* interval, the assignment to it changes nothing).
RECURSIVE parse_indexes_from(_, _, _, _)
parse_indexes_from(items, completions, result, last_interval) ==
    IF items = <<>> THEN result
    ELSE LET first == Head(items)[1]
             last_limit == IF Head(items)[2] >= completions THEN completions - 1
                           ELSE Head(items)[2]
         IN IF first >= completions THEN result
            ELSE IF last_interval # NoInterval /\ last_interval[2] = first - 1
            THEN parse_indexes_from(Tail(items), completions, result, last_interval)
            ELSE parse_indexes_from(Tail(items), completions,
                                    Append(result, <<first, last_limit>>),
                                    <<first, last_limit>>)

parse_indexes_from_string(indexes_str, completions) ==
    parse_indexes_from(indexes_str, completions, <<>>, NoInterval)

\* calculate_succeeded_indexes: the intervals of the status, and those merged with
\* the indexes of the succeeded pods that still hold the finalizer.
calculate_succeeded_indexes(job, pods) ==
    LET prev_intervals == parse_indexes_from_string(job.status.completed_indexes,
                                                    unwrap_or_default(job.spec.completions))
        new_succeeded == {get_completion_index(pods[k]) : k \in
                            {k \in 1..Len(pods) :
                                /\ get_completion_index(pods[k]) # NoValue
                                /\ pods[k].phase = "Succeeded"
                                /\ get_completion_index(pods[k]) < job.spec.completions
                                /\ has_job_tracking_finalizer(pods[k])}}
    IN [prev |-> prev_intervals,
        succeeded |-> with_ordered_indexes(prev_intervals, SetToSeq(new_succeeded))]

\* get_indexes: the indexes of the pods that have one, in the order of the pods.
get_indexes(pods) ==
    LET indexed(p) == get_completion_index(p) # NoValue
        with_index == SelectSeq(pods, indexed)
    IN [k \in 1..Len(with_index) |-> get_completion_index(with_index[k])]

\* util::filter_terminating_pods
filter_terminating_pods(pods) == SelectSeq(pods, is_pod_terminating)

\* The while loop of first_pending_indexes: candidates up to limit are pending.
RECURSIVE take_pending(_, _, _, _)
take_pending(acc, completions, count, limit) ==
    IF acc.candidate < completions /\ Len(acc.result) < count /\ acc.candidate < limit
    THEN take_pending([result |-> Append(acc.result, acc.candidate),
                       candidate |-> acc.candidate + 1], completions, count, limit)
    ELSE acc

RECURSIVE first_pending_from(_, _, _, _)
first_pending_from(non_pending, completions, count, acc) ==
    IF non_pending = <<>> THEN take_pending(acc, completions, count, completions).result
    ELSE LET taken == take_pending(acc, completions, count, Head(non_pending)[1])
             next == IF taken.candidate < Head(non_pending)[2] + 1
                     THEN [taken EXCEPT !.candidate = Head(non_pending)[2] + 1] ELSE taken
         IN first_pending_from(Tail(non_pending), completions, count, next)

\* first_pending_indexes: the first count indexes below completions that are
\* neither succeeded nor held by an active (or, with a pod failure policy, a
\* terminating) pod.
first_pending_indexes(count, completions, pods, active_pods, job, succeeded_indexes) ==
    IF count = 0 THEN <<>>
    ELSE LET with_active == with_ordered_indexes(succeeded_indexes, get_indexes(active_pods))
             non_pending ==
                 IF only_replace_failed_pods(job)
                 THEN with_ordered_indexes(with_active,
                                           get_indexes(filter_terminating_pods(pods)))
                 ELSE with_active
         IN first_pending_from(non_pending, completions, count,
                               [result |-> <<>>, candidate |-> 0])

MAX_POD_CREATE_DELETE_PER_SYNC == 500

saturating_sub(a, b) == IF a > b THEN a - b ELSE 0

count_terminating_pods(pods) == Len(SelectSeq(pods, is_pod_terminating))

\* create_pod_with_generate_name, the template with the tracking finalizer
\* appended (append_job_completion_finalizer_if_not_found); the new pod has no uid yet.
create_pod_with_generate_name(job, completion_index) ==
    JobControllerAction("CreatePod",
        [Pod(0, "Pending", TRUE, FALSE, FALSE) EXCEPT !.index = completion_index])

\* manage_job: the action it returns.  The pod it creates carries the first of the
\* pending indexes as its completion index, and none when there is no such index.
manage_job(job, pods, active_pods, succeeded, succeeded_indexes) ==
    LET active == Len(active_pods)
        parallelism == unwrap_or_default(job.spec.parallelism)
        terminating == IF only_replace_failed_pods(job) THEN count_terminating_pods(pods) ELSE 0
        want_active ==
            IF job.spec.completions # NoValue
            THEN LET w == saturating_sub(job.spec.completions, succeeded)
                 IN IF w > parallelism THEN parallelism ELSE w
            ELSE IF succeeded > 0 THEN active ELSE parallelism
        rm_at_least == saturating_sub(active + terminating, want_active)
        removal == active_pods_for_removal(job, active_pods, rm_at_least)
        pods_to_delete == truncate(removal, MAX_POD_CREATE_DELETE_PER_SYNC)
        diff == saturating_sub(saturating_sub(want_active, terminating), active)
        capped == IF diff > MAX_POD_CREATE_DELETE_PER_SYNC
                  THEN MAX_POD_CREATE_DELETE_PER_SYNC ELSE diff
        indexes_to_add ==
            IF job.spec.completion_mode = "Indexed"
            THEN first_pending_indexes(capped, job.spec.completions, pods, active_pods,
                                       job, succeeded_indexes)
            ELSE <<>>
        completion_index == IF indexes_to_add # <<>> THEN Head(indexes_to_add) ELSE NoValue
    IN IF job.spec.suspend
       THEN delete_job_pods(job, active_pods_for_removal(job, active_pods, active))
       ELSE IF Len(pods_to_delete) > 0 THEN delete_job_pods(job, pods_to_delete)
       ELSE IF diff > 0 THEN create_pod_with_generate_name(job, completion_index)
       ELSE NoAction

\* reconcile(job, pods) for a job without pod failure policy or active deadline.  action: what it returns; panics: it ends in the todo!() of
\* track_job_status_and_remove_finalizers (or in an unwrap of None); the other
\* fields are its local values at that point, managed being the value of the
\* manage_job call, which reconcile does not return, conditions the conditions
\* of new_status, and start_time_reset whether new_status.start_time was
\* assigned in the resume branch (the assignment of a first start, made only
\* when the Job has no start time, is not a reset).
reconcile(job, pods) ==
    LET active_pods == filter_active_pods(pods)
        active == Len(active_pods)
        uncounted == job.status.uncounted_terminated_pods
        new == get_new_finished_pods(job, pods, uncounted, {})
        indexes == IF job.spec.completion_mode = "Indexed"
                   THEN calculate_succeeded_indexes(job, pods)
                   ELSE [prev |-> <<>>, succeeded |-> <<>>]
        succeeded == IF job.spec.completion_mode = "Indexed" THEN Len(indexes.succeeded)
                     ELSE job.status.succeeded + Len(new.succeeded)
                              + Cardinality(uncounted.succeeded)
        failed == job.status.failed + non_ignored_failed_pods_count(job, new.failed)
                      + Cardinality(uncounted.failed)
        ready == count_ready_pods(active_pods)
        exceeds_backoff_limit == failed > unwrap_or_default(job.spec.backoff_limit)
        target == find_condition_by_type(job.status.conditions, "FailureTarget")
        failing ==
            IF target # 0
            THEN new_condition("Failed", "True", job.status.conditions[target].reason)
            ELSE IF exceeds_backoff_limit \/ past_backoff_limit_on_failure(job, pods)
            THEN new_condition("Failed", "True", "BackoffLimitExceeded")
            ELSE NoCondition
        manage_job_called == failing = NoCondition /\ ~job.deletion_timestamp
        managed == IF manage_job_called
                   THEN manage_job(job, pods, active_pods, succeeded, indexes.succeeded)
                   ELSE NoAction
        complete ==
            /\ failing = NoCondition
            /\ IF job.spec.completions = NoValue THEN succeeded > 0 /\ active = 0
               ELSE succeeded >= job.spec.completions /\ active = 0
        finished_condition ==
            IF failing # NoCondition THEN failing
            ELSE IF complete THEN new_condition("Complete", "True", "")
            ELSE NoCondition
        suspended ==
            IF failing = NoCondition /\ ~complete /\ manage_job_called
            THEN IF job.spec.suspend
                 THEN ensure_job_condition_status(job.status.conditions, "Suspended",
                                                  "True", "JobSuspended")
                 ELSE ensure_job_condition_status(job.status.conditions, "Suspended",
                                                  "False", "JobResumed")
            ELSE [changed |-> FALSE, conditions |-> job.status.conditions]
        suspend_cond_changed == suspended.changed
        needs_status_update ==
            \/ suspend_cond_changed
            \/ active # job.status.active
            \/ ready = job.status.ready
        early == exceeds_backoff_limit = FALSE /\ target = 0
                    /\ past_backoff_limit_on_failure_panics(job)
        delete_op == IF failing # NoCondition /\ ~early
                     THEN delete_active_pods(job, active_pods) ELSE NoAction
    IN [action |-> delete_op,
        panics |-> early \/ delete_op = NoAction,
        managed |-> managed,
        finished_condition |-> finished_condition,
        needs_status_update |-> needs_status_update,
        conditions |-> suspended.conditions,
        suspend_cond_changed |-> suspend_cond_changed,
        start_time_reset |-> suspend_cond_changed /\ ~job.spec.suspend,
        active |-> active, ready |-> ready, succeeded |-> succeeded, failed |-> failed,
        new_succeeded |-> new.succeeded, new_failed |-> new.failed,
        succeeded_indexes |-> indexes.succeeded, unwrap_panics |-> early]

\* A Job: the fields of spec and status that reconcile reads.
Job(parallelism, completions, suspend, status) ==
    [spec |-> [parallelism |-> parallelism, completions |-> completions,
               suspend |-> suspend, backoff_limit |-> NoValue,
               restart_policy |-> "Never", pod_failure_policy |-> FALSE,
               completion_mode |-> "NonIndexed"],
     deletion_timestamp |-> FALSE,
     status |-> status]

JobStatus(active, ready, succeeded, uncounted_succeeded, conditions) ==
    [active |-> active, ready |-> ready, succeeded |-> succeeded, failed |-> 0,
     uncounted_terminated_pods |-> [succeeded |-> uncounted_succeeded, failed |-> {}],
     conditions |-> conditions, completed_indexes |-> <<>>]

\* The id of the Job controller.
JobControllerId == 1

\* JobController::step on a view of one Job: ControllerJoin until the controller
\* is registered, then the result of reconcile.
JobController_step(id, view) ==
    IF id \notin view.controllers
    THEN [action |-> JobControllerAction("ControllerJoin", NoAction.pod), panics |-> FALSE,
          reconciled |-> FALSE]
    ELSE LET r == reconcile(view.job, view.pods) IN
         [action |-> r.action, panics |-> r.panics, reconciled |-> TRUE]

\* The view after the operation of a Job controller action.  DeletePod sets the
\* deletion timestamp of a pod that holds a finalizer and removes any other pod.
apply_job_action(view, id, action) ==
    CASE action.type = "ControllerJoin" ->
            [view EXCEPT !.controllers = @ \cup {id}]
      [] action.type = "DeletePod" ->
            LET other(p) == p.uid # action.pod.uid
                mark(p) == IF p.uid = action.pod.uid
                           THEN [p EXCEPT !.deletion_timestamp = TRUE] ELSE p
            IN IF action.pod.finalizer
               THEN [view EXCEPT !.pods = [i \in 1..Len(@) |-> mark(@[i])]]
               ELSE [view EXCEPT !.pods = SelectSeq(@, other)]
      [] OTHER -> view

\* No step of the Job controller yet.
NoStep ==
    [acted |-> FALSE, reconciled |-> FALSE, view |-> <<>>, action |-> NoAction,
     panics |-> FALSE, rec |-> <<>>]

\* A view without pods, its Job the default one; the Job controller not started.
JobDefault ==
    /\ cluster = [controllers |-> {}, pods |-> <<>>,
                  job |-> Job(NoValue, NoValue, FALSE, JobStatus(0, 0, 0, {}, <<>>))]
    /\ jlast = NoStep

\* ------------------------------------------------------------ State (history)
HistoryParams(k) == IF k \in {"Bounded", "OptimisticLinear"} THEN 0..MaxParam ELSE {0}

NoWrite ==
    [acted |-> FALSE, from |-> 0, change |-> Change(0, ControllerJoin(0)),
     pre |-> <<>>, preSessions |-> [x \in Sessions |-> NoSession], rev |-> 0, seen |-> {}]

\* State::new(initial_state, consistency_level)
StateNew(initial_state) ==
    /\ kind \in Kinds
    /\ param \in HistoryParams(kind)
    /\ states = <<initial_state>>
    /\ sessions = [x \in Sessions |-> NoSession]
    /\ err = "none"
    /\ issued = {initial_state.revision}
    /\ writes = 0
    /\ local = [i \in Sessions |-> [running |-> {}]]
    /\ last = NoWrite
    /\ crashes = 0

\* The State the transition starts from, ghosts included.
Here ==
    [states |-> states, sessions |-> sessions, err |-> err, issued |-> issued,
     writes |-> writes, last |-> last, crashes |-> crashes]

\* State::push_change(change, from) on the State h: what add_change leaves behind.
\* A panic ends the run: nothing is pushed after one.
State_push_change(h, change, from) ==
    IF h.err # "none" THEN h
    ELSE LET r == StateHistory_add_change(kind, param, h.states, h.sessions, change, from)
             ok == r.err = "none"
         IN [states |-> r.states,
             sessions |-> r.sessions,
             err |-> r.err,
             issued |-> IF ok THEN h.issued \cup Revisions(r.states) \cup {r.rev} ELSE h.issued,
             writes |-> IF ok THEN h.writes + 1 ELSE h.writes,
             crashes |-> h.crashes,
             last |-> [acted |-> ok, from |-> from, change |-> change, pre |-> h.states,
                       preSessions |-> h.sessions, rev |-> r.rev, seen |-> h.issued]]

\* State::push_changes(changes, from): each change in turn.
RECURSIVE State_push_changes(_, _, _)
State_push_changes(h, changes, from) ==
    IF changes = <<>> THEN h
    ELSE CHOOSE result \in {State_push_changes(pushed, Tail(changes), from) :
                                pushed \in {State_push_change(h, Head(changes), from)}} : TRUE

\* The transition ends in the State h.
Becomes(h) ==
    /\ states' = h.states
    /\ sessions' = h.sessions
    /\ err' = h.err
    /\ issued' = h.issued
    /\ writes' = h.writes
    /\ last' = h.last
    /\ crashes' = h.crashes
    /\ UNCHANGED <<kind, param, local>>

\* The operations a client of the store writes in the history-level specification.
ClientOps == {NodeJoin(1), ControllerJoin(1), NewPod(1), SchedulePod(1, 1), NodeCrashOp(1)}

\* State::push_change(change, from), the change generated from a view the session
\* may observe (State::views(from)).
push_change(from, revision, op) ==
    /\ err = "none"
    /\ writes < MaxWrites
    /\ revision \in valid_revisions(kind, states, sessions, from)
    /\ Becomes(State_push_change(Here, Change(revision, op), from))
    /\ UNCHANGED <<resourceVars, jobVars, intervalVars>>

Init == StateNew(DefaultView) /\ ResourcesDefault /\ JobDefault /\ MergedDefault /\ CallDefault

Next == \E from \in Sessions, revision \in 0..MaxWrites, op \in ClientOps :
            push_change(from, revision, op)

Spec == Init /\ [][Next]_vars

\* ------------------------------------------------------------- controllers
\* The first node in key order, whatever it runs.
least_loaded_node_First(view) ==
    IF DOMAIN view.nodes = {} THEN NoNode ELSE SetMin(DOMAIN view.nodes)

\* nodes.iter().map(|(n, node)| (n, node.running.len())).min_by_key(|(_, pods)| *pods):
\* the first node, in key order, of the fewest running pods; NoNode when there is none.
least_loaded_node(view) ==
    IF DOMAIN view.nodes = {} THEN NoNode
    ELSE SetMin({n \in DOMAIN view.nodes :
                    \A o \in DOMAIN view.nodes :
                        Cardinality(view.nodes[n].running) <= Cardinality(view.nodes[o].running)})

\* A scheduler that schedules whether it has joined or not.
Scheduler_step_Eager(id, view) ==
    LET node == least_loaded_node(view)
        pods == SetToSeq({p \in DOMAIN view.pods : view.pods[p].node_name = NoNode})
    IN IF node = NoNode
       THEN IF id \notin view.controllers
            THEN <<Change(view.revision, ControllerJoin(id))>> ELSE <<>>
       ELSE [i \in 1..Len(pods) |-> Change(view.revision, SchedulePod(pods[i], node))]

\* A scheduler that joins and then schedules nothing.
Scheduler_step_JoinOnly(id, view) ==
    IF id \notin view.controllers
    THEN <<Change(view.revision, ControllerJoin(id))>>
    ELSE <<>>

\* Scheduler::step: the changes, each at the view's revision.
Scheduler_step(id, view) ==
    IF id \notin view.controllers
    THEN <<Change(view.revision, ControllerJoin(id))>>
    ELSE LET node == least_loaded_node(view)
             pods == SetToSeq({p \in DOMAIN view.pods : view.pods[p].node_name = NoNode})
         IN IF node = NoNode THEN <<>>
            ELSE [i \in 1..Len(pods) |-> Change(view.revision, SchedulePod(pods[i], node))]

\* Node::step: Some(operation) as a one-change list, None as the empty list.
Node_step(id, view, local_state) ==
    IF id \in DOMAIN view.nodes
    THEN LET pods == {p \in DOMAIN view.pods :
                        view.pods[p].node_name = id /\ p \notin local_state.running}
         IN IF pods = {} THEN <<>>
            ELSE <<Change(view.revision, RunPod(SetMin(pods), id))>>
    ELSE <<Change(view.revision, NodeJoin(id))>>

\* Controllers::step
Controllers_step(i, view, local_state) ==
    CASE Controllers[i] = "Node" -> Node_step(i, view, local_state)
      [] Controllers[i] = "Scheduler" -> Scheduler_step(i, view)

\* ------------------------------------------------------------------- driver
\* The initial state of the driver: every pod present and unscheduled.
InitialView == [DefaultView EXCEPT !.pods = [p \in PodIds |-> [node_name |-> NoNode]]]

\* State::views(from) panics when state_at does.
ViewsPanic(from) ==
    \E r \in valid_revisions(kind, states, sessions, from) : state_at_index(kind, states, r) = 0

\* actions() pushes ControllerStep(i, name, changes) for controller i and a view it may
\* observe; next_state pushes the changes from session i.  A run makes at most cap
\* writes.
ControllerStepWithin(i, revision, cap) ==
    /\ err = "none"
    /\ revision \in valid_revisions(kind, states, sessions, i)
    /\ IF ViewsPanic(i)
       THEN Becomes([Here EXCEPT !.err = "history"])
       ELSE \E changes \in {Controllers_step(i, state_at(kind, states, revision), local[i])} :
               /\ writes + Len(changes) <= cap
               /\ \E h \in {State_push_changes(Here, changes, i)} : Becomes(h)
    /\ UNCHANGED <<resourceVars, jobVars, intervalVars>>

ControllerStep(i, revision) == ControllerStepWithin(i, revision, MaxWrites)

\* actions() pushes NodeCrash(node) for every ready node of a view; next_state pushes
\* the NodeCrash operation at the current max revision.  A run makes at most cap
\* writes and has at most crash_cap crashes.
NodeCrashWithin(from, revision, node, cap, crash_cap) ==
    /\ err = "none"
    /\ writes < cap
    /\ crashes < crash_cap
    /\ revision \in valid_revisions(kind, states, sessions, from)
    /\ ~ViewsPanic(from)
    /\ LET view == state_at(kind, states, revision) IN
          /\ node \in DOMAIN view.nodes
          /\ view.nodes[node].ready
    /\ \E h \in {State_push_change(Here, Change(max_revision(states), NodeCrashOp(node)), node)} :
          Becomes([h EXCEPT !.crashes = @ + 1])
    /\ UNCHANGED <<resourceVars, jobVars, intervalVars>>

NodeCrash(from, revision, node) == NodeCrashWithin(from, revision, node, MaxWrites, MaxWrites)

DriverInit == StateNew(InitialView) /\ ResourcesDefault /\ JobDefault /\ MergedDefault /\ CallDefault

DriverNext ==
    \/ \E i \in Sessions, revision \in 0..MaxWrites : ControllerStep(i, revision)
    \/ \E from \in Sessions, revision \in 0..MaxWrites, node \in NodeIds :
            NodeCrash(from, revision, node)

DriverSpec == DriverInit /\ [][DriverNext]_vars

\* AbstractModelCfg::actions: for every view a session may observe, a
\* ControllerStep with the changes the controller's step returns on it, whatever
\* their number, and a NodeCrash for every ready node of the view.
actions ==
    LET observed == UNION {{<<i, revision>> :
                               revision \in valid_revisions(kind, states, sessions, i)} :
                           i \in {j \in Sessions : ~ViewsPanic(j)}}
        offered(i, view) ==
            {[type |-> "ControllerStep", i |-> i, node |-> NoNode, view |-> view,
              changes |-> Controllers_step(i, view, local[i])]}
            \cup {[type |-> "NodeCrash", i |-> i, node |-> node, view |-> view,
                   changes |-> <<>>] :
                     node \in {n \in DOMAIN view.nodes : view.nodes[n].ready}}
    IN IF err # "none" THEN {}
       ELSE UNION {offered(o[1], state_at(kind, states, o[2])) : o \in observed}

\* ------------------------------------------------ the driver on seeded views
\* The nodes of a seeded initial state: the Node controller's own and one more.
SeedNodeIds == {1, 2}

\* AbstractModelCfg.initial_state: some of the nodes, ready or not, every pod
\* unassigned or assigned to one of them, the controllers registered.
SeedViews ==
    {[DefaultView EXCEPT !.nodes = [n \in N |-> [running |-> {}, ready |-> n \in R]],
                         !.pods = [p \in PodIds |-> [node_name |-> a[p]]],
                         !.controllers = Sessions] :
        <<N, R, a>> \in UNION {{<<N1, R1, a1>> : R1 \in SUBSET N1,
                                                a1 \in [PodIds -> {NoNode} \cup N1]} :
                               N1 \in SUBSET SeedNodeIds}}

SeededInit ==
    /\ \E view \in SeedViews : StateNew(view)
    /\ kind = "Strong"
    /\ ResourcesDefault
    /\ JobDefault
    /\ MergedDefault
    /\ CallDefault

SeededNext ==
    \/ \E i \in Sessions, revision \in 0..MaxWrites : ControllerStep(i, revision)
    \/ \E from \in Sessions, revision \in 0..MaxWrites, node \in SeedNodeIds :
            NodeCrash(from, revision, node)

SeededSpec == SeededInit /\ [][SeededNext]_vars

\* ------------------------------------ the driver on seeded views, every regime
\* Room for the writes that lead from a seeded view to a node that runs a pod
\* (NodeJoin, two SchedulePods, RunPod) and one more.
StaleCap == MaxWrites + 1

StaleInit ==
    /\ \E view \in SeedViews : StateNew(view)
    /\ ResourcesDefault
    /\ JobDefault
    /\ MergedDefault
    /\ CallDefault

StaleNext ==
    \/ \E i \in Sessions, revision \in 0..StaleCap : ControllerStepWithin(i, revision, StaleCap)
    \/ \E from \in Sessions, revision \in 0..StaleCap, node \in SeedNodeIds :
            NodeCrashWithin(from, revision, node, StaleCap, 1)

StaleSpec == StaleInit /\ [][StaleNext]_vars

\* ------------------------------------------------- the driver, scheduled fairly
\* Strong consistency, at most MaxCrashes NodeCrash faults, and room for every
\* write that can come before the pods are scheduled (the controllers' joins, a
\* NodeJoin after each crash, the crashes, the SchedulePods) and one more.
FairCap == 2 * MaxCrashes + Cardinality(PodIds) + 3

FairControllerStep(i) ==
    \E revision \in 0..FairCap : ControllerStepWithin(i, revision, FairCap)

FairNodeCrash ==
    \E from \in Sessions, revision \in 0..FairCap, node \in NodeIds :
        NodeCrashWithin(from, revision, node, FairCap, MaxCrashes)

FairDriverInit == DriverInit /\ kind = "Strong"

FairDriverNext ==
    \/ \E i \in Sessions : FairControllerStep(i)
    \/ FairNodeCrash

\* Every controller whose step changes the state gets to take it; faults are not
\* forced.
FairDriverSpec ==
    /\ FairDriverInit
    /\ [][FairDriverNext]_vars
    /\ \A i \in Sessions : WF_vars(FairControllerStep(i))

\* ---------------------------------------------------- writes to a collection
\* A write reaches a collection as an operation pushed through the State: the
\* history issues the revision and Resources::insert is called with it.  The
\* views of src/state.rs keep nodes and pods in maps, so the operation pushed for
\* a write of the collection is the writer's ControllerJoin; only the revision
\* the history returns matters here.
Writer == 1

Issue == State_push_change(Here, Change(max_revision(states), ControllerJoin(Writer)), Writer)

\* The entry named name, found by scanning the vector; NoResource when there is none.
Stored(rs, name) ==
    IF \E i \in 1..Len(rs) : rs[i].name = name
    THEN rs[CHOOSE i \in 1..Len(rs) : rs[i].name = name]
    ELSE NoResource

\* The objects a caller writes.  Names 1 and 2 are written with every uid, spec and
\* generation, and with a resource_version that is empty, the stored one, or the
\* string of revision 1 (stale once the entry was rewritten); name 3, which is
\* there for the sorted position, is written as one plain object.
Incoming ==
    UNION {{Resource(n, u, rv, g, sp) :
                u \in Uids,
                rv \in {"", Revision_to_string(1), Stored(resources, n).resource_version},
                g \in Generations, sp \in SpecValues} : n \in Names \ {3}}
        \cup {Resource(3, 1, "", 0, 0)}

\* resources.insert(res, new_revision)
Insert(res) ==
    /\ err = "none"
    /\ writes < MaxCalls
    /\ LET h == Issue
           r == Resources_insert(resources, res, h.last.rev)
       IN /\ Becomes(h)
          /\ resources' = r.resources
          /\ written' = IF r.ok THEN [written EXCEPT ![res.name] = h.last.rev] ELSE written
          /\ rlast' = [op |-> "insert", name |-> res.name, res |-> res,
                       revision |-> h.last.rev, ok |-> r.ok,
                       existing |-> Stored(resources, res.name)]
    /\ UNCHANGED <<jobVars, intervalVars>>

\* resources.remove(name)
Remove(name) ==
    /\ err = "none"
    /\ writes < MaxCalls
    /\ LET h == Issue IN
          /\ Becomes(h)
          /\ resources' = Resources_remove(resources, name)
          /\ written' = [written EXCEPT ![name] = NoRevision]
          /\ rlast' = [op |-> "remove", name |-> name, res |-> NoResource,
                       revision |-> h.last.rev, ok |-> TRUE,
                       existing |-> Stored(resources, name)]
    /\ UNCHANGED <<jobVars, intervalVars>>

\* resources.retain(f)
Retain(f) ==
    /\ err = "none"
    /\ writes < MaxCalls
    /\ LET h == Issue IN
          /\ Becomes(h)
          /\ resources' = Resources_retain(resources, f)
          /\ written' = [n \in Names |->
                            IF Stored(resources, n) # NoResource /\ ~Keeps(f, Stored(resources, n))
                            THEN NoRevision ELSE written[n]]
          /\ rlast' = [op |-> "retain", name |-> 0, res |-> NoResource,
                       revision |-> h.last.rev, ok |-> TRUE, existing |-> NoResource]
    /\ UNCHANGED <<jobVars, intervalVars>>

ResourcesInit ==
    StateNew(DefaultView) /\ kind = "Linearizable" /\ ResourcesDefault /\ JobDefault
    /\ MergedDefault
    /\ CallDefault

ResourcesNext ==
    \/ \E res \in Incoming : Insert(res)
    \/ \E name \in Names : Remove(name)
    \/ \E f \in Predicates : Retain(f)

ResourcesSpec == ResourcesInit /\ [][ResourcesNext]_vars

\* ------------------------------------------------------- the Job controller
PodUids == {1, 2}

\* The pods of a seed.  A pod is ready only while Running, and a pod that is
\* active holds the tracking finalizer: the pod template it was created from
\* carries it.
SeedPod(uid) ==
    {pod \in {Pod(uid, ph, f, d, r) :
                ph \in {"Pending", "Running", "Succeeded", "Failed"},
                f \in BOOLEAN, d \in BOOLEAN, r \in BOOLEAN} :
        /\ pod.ready => pod.phase = "Running"
        /\ is_pod_active(pod) => pod.finalizer}

SeedPods ==
    {<<>>} \cup {<<p>> : p \in SeedPod(1)}
           \cup {<<p, q>> : p \in SeedPod(1), q \in SeedPod(2)}

\* The Jobs of a seed: parallelism 1, completions unset or 1, suspended or not,
\* a status that may be behind the pods, and possibly a FailureTarget condition.
SeedJobs ==
    {Job(1, c, su, JobStatus(a, r, sd, u, cs)) :
        c \in {NoValue, 1}, su \in BOOLEAN, a \in {0, 1}, r \in {0, 1}, sd \in {0, 1},
        u \in {{}, {1}},
        cs \in {<<>>, <<new_condition("FailureTarget", "True", "PodFailurePolicy")>>}}

\* A status a run can have left behind: no more ready pods than active ones, and
\* in the uncounted list only terminal pods of the view.
Coherent(pods, job) ==
    /\ job.status.ready <= job.status.active
    /\ \A u \in job.status.uncounted_terminated_pods.succeeded :
          \E i \in 1..Len(pods) : pods[i].uid = u /\ pods[i].phase = "Succeeded"

\* OrchestrationModelCfg.initial_state: a Job and the pods it selects.
Seeds ==
    {seed \in {[controllers |-> {}, pods |-> ps, job |-> j] : ps \in SeedPods, j \in SeedJobs} :
        Coherent(seed.pods, seed.job)}

\* ControllerStep of the Job controller on the latest view: the operation of the
\* action it returns is applied; a panic of step ends the run.
JobStep ==
    /\ err = "none"
    /\ \E r \in {JobController_step(JobControllerId, cluster)} :
          /\ r.action # NoAction \/ r.panics
          /\ err' = IF r.panics THEN "todo" ELSE err
          /\ cluster' = IF r.panics THEN cluster
                        ELSE apply_job_action(cluster, JobControllerId, r.action)
          /\ jlast' = [acted |-> TRUE, reconciled |-> r.reconciled, view |-> cluster,
                       action |-> r.action, panics |-> r.panics,
                       rec |-> IF r.reconciled THEN reconcile(cluster.job, cluster.pods)
                               ELSE <<>>]
    /\ UNCHANGED <<kind, param, states, sessions, issued, writes, local, last, crashes>>
    /\ UNCHANGED <<resourceVars, intervalVars>>

JobInit ==
    /\ StateNew(DefaultView)
    /\ kind = "Linearizable"
    /\ ResourcesDefault
    /\ MergedDefault
    /\ CallDefault
    /\ cluster \in Seeds
    /\ jlast = NoStep

JobNext == JobStep

JobSpec == JobInit /\ [][JobNext]_vars

\* The seeds of at most one pod.
SmallSeeds == {seed \in Seeds : Len(seed.pods) <= 1}

JobFairInit ==
    /\ StateNew(DefaultView)
    /\ kind = "Linearizable"
    /\ ResourcesDefault
    /\ MergedDefault
    /\ CallDefault
    /\ cluster \in SmallSeeds
    /\ jlast = NoStep

\* The driver takes a step of a controller for as long as one is enabled.
JobFairSpec == JobFairInit /\ [][JobNext]_vars /\ WF_vars(JobStep)

\* ------------------------------------------- the driver on suspended Jobs
\* The Suspended conditions reconcile produces.
JobSuspended == new_condition("Suspended", "True", "JobSuspended")
JobResumed == new_condition("Suspended", "False", "JobResumed")

\* A Job that is suspended or not, and was never suspended, is suspended or
\* has been resumed, whatever spec.suspend says now.
SuspendJobs ==
    {Job(1, c, su, JobStatus(a, r, 0, {}, cs)) :
        c \in {NoValue, 1}, su \in BOOLEAN, a \in {0, 1}, r \in {0, 1},
        cs \in {<<>>, <<JobSuspended>>, <<JobResumed>>}}

SuspendSeeds ==
    {seed \in {[controllers |-> {}, pods |-> ps, job |-> j] :
                    ps \in SeedPods, j \in SuspendJobs} :
        Coherent(seed.pods, seed.job)}

SuspendInit ==
    /\ StateNew(DefaultView)
    /\ kind = "Linearizable"
    /\ ResourcesDefault
    /\ MergedDefault
    /\ CallDefault
    /\ cluster \in SuspendSeeds
    /\ jlast = NoStep

SuspendSpec == SuspendInit /\ [][JobNext]_vars

\* ------------------------------------- the driver with the Job controller
\* The seeds of a plain Job: at most one pod, not suspended, no condition yet.
PlainSeeds ==
    {seed \in SmallSeeds : seed.job.status.conditions = <<>> /\ ~seed.job.spec.suspend}

\* The Node, the Scheduler and the Job controller are stepped by one driver, on a
\* history of the latest view only.
ControllersInit ==
    /\ StateNew(InitialView)
    /\ kind = "Linearizable"
    /\ ResourcesDefault
    /\ MergedDefault
    /\ CallDefault
    /\ cluster \in PlainSeeds
    /\ jlast = NoStep

ControllersNext ==
    \/ DriverNext
    \/ JobStep

ControllersSpec == ControllersInit /\ [][ControllersNext]_vars

\* ------------------------------------------------ jobs with a backoff limit
\* The pods of a seed of a Job with a backoff limit: not ready, not being deleted,
\* Pending, Running or Failed, with the tracking finalizer, their containers
\* restarted up to twice.
BackoffSeedPod(uid) ==
    {[Pod(uid, ph, TRUE, FALSE, FALSE) EXCEPT !.restart_count = n] :
        ph \in {"Pending", "Running", "Failed"}, n \in 0..2}

BackoffSeedPods ==
    {<<>>} \cup {<<p>> : p \in BackoffSeedPod(1)}
           \cup {<<p, q>> : p \in BackoffSeedPod(1), q \in BackoffSeedPod(2)}

\* The conditions of a seed: none, or a FailureTarget that is True or False.
SeedConditions ==
    {<<>>} \cup {<<new_condition("FailureTarget", st, "PodFailurePolicy")>> :
                    st \in {"True", "False"}}

\* The Jobs: a backoff limit that is unset, 0, 1 or 2, either restart policy,
\* failed pods counted before or not.
BackoffSeedJobs ==
    {[Job(2, NoValue, FALSE, [JobStatus(0, 0, 0, {}, cs) EXCEPT !.failed = fl])
        EXCEPT !.spec.backoff_limit = bl, !.spec.restart_policy = rp] :
        bl \in {NoValue} \cup 0..2, rp \in {"Never", "OnFailure"}, fl \in 0..1,
        cs \in SeedConditions}

BackoffSeeds ==
    {[controllers |-> {JobControllerId}, pods |-> ps, job |-> j] :
        ps \in BackoffSeedPods, j \in BackoffSeedJobs}

BackoffInit ==
    /\ StateNew(DefaultView)
    /\ kind = "Linearizable"
    /\ ResourcesDefault
    /\ MergedDefault
    /\ CallDefault
    /\ cluster \in BackoffSeeds
    /\ jlast = NoStep

BackoffSpec == BackoffInit /\ [][JobNext]_vars

\* ------------------------------------------------------------ Indexed jobs
\* The interval list of a set of indexes as the controller writes it: sorted,
\* the intervals neither overlapping nor adjacent.
RECURSIVE IntervalsOf(_)
IntervalsOf(S) ==
    IF S = {} THEN <<>>
    ELSE LET first == SetMin(S)
             last_of == CHOOSE e \in S : /\ first..e \subseteq S
                                         /\ e + 1 \notin S
                                         /\ e >= first
         IN <<(<<first, last_of>>)>> \o IntervalsOf({x \in S : x > last_of})

\* The completions of the Indexed Job of a seed.
SeedCompletions == 2

\* The pods of an Indexed seed: as SeedPod, never ready, with a completion index
\* that is absent, valid, or beyond completions.
IndexedSeedPod(uid) ==
    {[pod EXCEPT !.index = ix] : pod \in {q \in SeedPod(uid) : ~q.ready},
                                  ix \in {NoValue} \cup 0..SeedCompletions}

IndexedSeedPods ==
    {<<>>} \cup {<<p>> : p \in IndexedSeedPod(1)}
           \cup {<<p, q>> : p \in IndexedSeedPod(1), q \in IndexedSeedPod(2)}

\* The texts of status.completed_indexes: the interval list of a set of indexes
\* below completions.
SeedCompletedIndexes == {IntervalsOf(S) : S \in SUBSET (0..(SeedCompletions - 1))}

\* The Indexed Jobs of a seed: completions set (it is required of an Indexed
\* Job), parallelism 1 or 2.
IndexedSeedJobs ==
    {[Job(par, SeedCompletions, su, [JobStatus(0, 0, 0, {}, <<>>) EXCEPT
                                        !.completed_indexes = done])
        EXCEPT !.spec.completion_mode = "Indexed"] :
        par \in {1, 2}, su \in BOOLEAN, done \in SeedCompletedIndexes}

IndexedSeeds ==
    {[controllers |-> {JobControllerId}, pods |-> ps, job |-> j] :
        ps \in IndexedSeedPods, j \in IndexedSeedJobs}

IndexedInit ==
    /\ StateNew(DefaultView)
    /\ kind = "Linearizable"
    /\ ResourcesDefault
    /\ MergedDefault
    /\ CallDefault
    /\ cluster \in IndexedSeeds
    /\ jlast = NoStep

IndexedSpec == IndexedInit /\ [][JobNext]_vars

\* ------------------------------------------------- merging completion indexes
\* calculate_succeeded_indexes: the new indexes are the items of a BTreeSet, in order.
SinglesOf(S) == [k \in 1..Cardinality(S) |-> <<SetToSeq(S)[k], SetToSeq(S)[k]>>]

\* A call merge(oi, b), its result merged with c, and oi merged with the list of
\* the indexes of b and c together.  The lists b and c are both lists of single
\* indexes (single) or both lists of intervals.
MergeStep ==
    /\ ~merged.acted
    /\ merged' = [merged EXCEPT
                    !.acted = TRUE,
                    !.ab = merge(merged.oi, merged.b),
                    !.ab_c = merge(merge(merged.oi, merged.b), merged.c),
                    !.a_bc = merge(merged.oi,
                                   IF merged.single THEN SinglesOf(merged.B \cup merged.C)
                                   ELSE IntervalsOf(merged.B \cup merged.C))]
    /\ UNCHANGED <<historyVars, resourceVars, jobVars, call>>

MergeInit ==
    /\ StateNew(DefaultView)
    /\ kind = "Linearizable"
    /\ ResourcesDefault
    /\ JobDefault
    /\ CallDefault
    /\ merged \in {[acted |-> FALSE, single |-> single, B |-> B, C |-> C,
                    oi |-> IntervalsOf(A),
                    b |-> IF single THEN SinglesOf(B) ELSE IntervalsOf(B),
                    c |-> IF single THEN SinglesOf(C) ELSE IntervalsOf(C),
                    ab |-> <<>>, ab_c |-> <<>>, a_bc |-> <<>>] :
                        A \in SUBSET (0..MaxIndex), B \in SUBSET (0..MaxIndex),
                        C \in SUBSET (0..MaxIndex), single \in BOOLEAN}

MergeNext == MergeStep

MergeSpec == MergeInit /\ [][MergeNext]_vars

\* ------------------------------------------------- choosing pending indexes
\* Sequences without repetition of at most n elements of S.
RECURSIVE Arrangements(_, _)
Arrangements(S, n) ==
    IF n = 0 THEN {<<>>}
    ELSE {<<>>} \cup UNION {{<<x>> \o rest : rest \in Arrangements(S \ {x}, n - 1)} : x \in S}

\* An active pod and a terminating pod with a completion index.
IndexedPod(uid, terminating, ix) ==
    [Pod(uid, "Running", TRUE, terminating, FALSE) EXCEPT !.index = ix]

\* The arguments of a call first_pending_indexes(count, completions, pods,
\* active_pods, job, succeeded_indexes): the succeeded indexes as the interval list
\* of a set, at most two active pods in any order, their indexes distinct and
\* not succeeded, at most one terminating pod, with or without a pod failure policy.
PendingCalls ==
    UNION {UNION {{[acted |-> FALSE, count |-> count, completions |-> completions,
                    active_pods |-> [k \in 1..Len(act) |-> IndexedPod(k, FALSE, act[k])],
                    pods |-> [k \in 1..Len(act) |-> IndexedPod(k, FALSE, act[k])]
                                 \o [k \in 1..Len(term) |-> IndexedPod(3, TRUE, term[k])],
                    job |-> [Job(count, completions, FALSE, JobStatus(0, 0, 0, {}, <<>>))
                                 EXCEPT !.spec.completion_mode = "Indexed",
                                        !.spec.pod_failure_policy = policy],
                    succeeded_indexes |-> IntervalsOf(S),
                    result |-> <<>>] :
                       act \in Arrangements((0..(completions - 1)) \ S, 2),
                       term \in Arrangements(0..(completions - 1), 1),
                       policy \in BOOLEAN,
                       count \in 0..MaxIndex} :
                  S \in SUBSET (0..(completions - 1))} :
           completions \in 1..MaxIndex}

PendingStep ==
    /\ ~call.acted
    /\ call' = [call EXCEPT
                  !.acted = TRUE,
                  !.result = first_pending_indexes(call.count, call.completions, call.pods,
                                                   call.active_pods, call.job,
                                                   call.succeeded_indexes)]
    /\ UNCHANGED <<historyVars, resourceVars, jobVars, merged>>

PendingInit ==
    /\ StateNew(DefaultView)
    /\ kind = "Linearizable"
    /\ ResourcesDefault
    /\ JobDefault
    /\ MergedDefault
    /\ call \in PendingCalls

PendingNext == PendingStep

PendingSpec == PendingInit /\ [][PendingNext]_vars

\* ------------------------------------------------- choosing pods for removal
\* An active pod of a call: Pending or Running, ready only while Running, one
\* restart or none, with the completion index ix.
ActivePod(uid, ix) ==
    {[pod EXCEPT !.index = ix, !.restart_count = restarts] :
        pod \in {q \in SeedPod(uid) : is_pod_active(q) /\ ~q.deletion_timestamp},
        restarts \in {0, 1}}

\* The indexes of the pods of a call: none for a NonIndexed Job; for an Indexed
\* one none, one below completions, or completions itself.
CallIndexes(mode) ==
    IF mode = "Indexed" THEN {NoValue} \cup 0..SeedCompletions ELSE {NoValue}

\* The lists of at most three active pods.
ActivePodLists(mode) ==
    {<<>>} \cup UNION {{<<p>> : p \in ActivePod(1, ix)} : ix \in CallIndexes(mode)}
           \cup UNION {{<<p, q>> : p \in ActivePod(1, ix[1]), q \in ActivePod(2, ix[2])} :
                          ix \in CallIndexes(mode) \X CallIndexes(mode)}
           \cup UNION {{<<p, q, r>> : p \in ActivePod(1, ix[1]), q \in ActivePod(2, ix[2]),
                                      r \in ActivePod(3, ix[3])} :
                          ix \in CallIndexes(mode) \X CallIndexes(mode) \X CallIndexes(mode)}

\* The arguments of a call active_pods_for_removal(job, pods, rm_at_least).
RemovalCalls ==
    {[acted |-> FALSE, pods |-> a[2], rm_at_least |-> a[3],
      job |-> [Job(1, SeedCompletions, FALSE, JobStatus(0, 0, 0, {}, <<>>))
                   EXCEPT !.spec.completion_mode = a[1]],
      split |-> <<>>, result |-> <<>>] :
        a \in {b \in ({"NonIndexed"} \X ActivePodLists("NonIndexed") \X (0..3))
                       \cup ({"Indexed"} \X ActivePodLists("Indexed") \X (0..3)) :
                    b[3] <= Len(b[2])}}

\* The call, and for an Indexed Job the lists that
\* append_duplicated_index_pods_for_removal fills on its way.
RemovalStep ==
    /\ ~call.acted
    /\ call' = [call EXCEPT
                  !.acted = TRUE,
                  !.split = IF call.job.spec.completion_mode = "Indexed"
                            THEN append_duplicated_index_pods_for_removal(
                                     call.pods, call.job.spec.completions)
                            ELSE [rm |-> <<>>, left |-> call.pods],
                  !.result = active_pods_for_removal(call.job, call.pods, call.rm_at_least)]
    /\ UNCHANGED <<historyVars, resourceVars, jobVars, merged>>

RemovalInit ==
    /\ StateNew(DefaultView)
    /\ kind = "Linearizable"
    /\ ResourcesDefault
    /\ JobDefault
    /\ MergedDefault
    /\ call \in RemovalCalls

RemovalNext == RemovalStep

RemovalSpec == RemovalInit /\ [][RemovalNext]_vars

\* ============================================================== properties
\* The view of s whose revision is r.
ViewAt(s, r) == s[CHOOSE i \in 1..Len(s) : s[i].revision = r]

\* The 1-based index in the pre-state of the last write's baseline revision (0: none).
BaselineIndex == binary_search_by_key(last.pre, last.change.revision)

OptimisticKinds == {"OptimisticLinearState", "OptimisticLinear"}

\* C1: the revision every add_change returns is strictly greater than every revision
\* the history returned or retained before the call, for every strategy.
C1_RevisionsStrictlyIncrease ==
    last.acted => \A r \in last.seen : last.rev > r

\* C1 (the strategies it holds for): every strategy but the
\* OptimisticLinearHistory of src/state.rs issues strictly increasing revisions.
C1_IncreaseButOptimisticState ==
    (last.acted /\ kind # "OptimisticLinearState") => \A r \in last.seen : last.rev > r

\* C2: for every strategy, session s and revision r of valid_revisions(s),
\* state_at(r) succeeds and returns a view whose revision is r.
C2_StateAtValidRevision ==
    err = "none" =>
        \A s \in Sessions : \A r \in valid_revisions(kind, states, sessions, s) :
            /\ state_at_index(kind, states, r) # 0
            /\ state_at(kind, states, r).revision = r

C2_Witness ==
    /\ last.acted
    /\ kind = "Eventual"
    /\ Cardinality(valid_revisions(kind, states, sessions, 1)) >= 3

\* C3: add_change never fails at the history layer: under every consistency regime,
\* applying any action of actions(state) completes without a history failure; the
\* baseline of every change pushed is a retained revision when it is pushed.
C3_NoHistoryFailure == err # "history"

\* C4: a revision retained both before and after an add_change names a view of the
\* same contents (resources and controller set) before and after it.
C4_OldSnapshotsUnchanged ==
    last.acted =>
        \A r \in Revisions(last.pre) \cap Revisions(states) :
            Content(ViewAt(last.pre, r)) = Content(ViewAt(states, r))

\* C5: bounded staleness with parameter k retains, after n writes, exactly the
\* min(n, k) + 1 most recent views, with consecutive revisions ending at
\* max_revision, and valid_revisions is exactly their revisions for every session.
C5_BoundedKeepsLastK ==
    kind = "Bounded" =>
        LET n == writes
            c == (IF n < param THEN n ELSE param) + 1
        IN /\ Len(states) = c
           /\ Len(states) <= param + 1
           /\ max_revision(states) = n
           /\ \A i \in 1..Len(states) : states[i].revision = n - c + i
           /\ \A s \in Sessions :
                valid_revisions_seq(kind, states, sessions, s)
                    = [i \in 1..c |-> n - c + i]

C5_Witness ==
    kind = "Bounded" /\ param = 1 /\ writes >= 3 /\ last.acted /\ Len(last.pre) = 2

\* C6: after add_change by session s the high-water of s is the revision returned
\* (the other sessions' are untouched), and valid_revisions(s) is exactly the
\* retained revisions >= high-water(s), all of them when s never wrote; so no
\* session observes a view older than its own last write.
C6_SessionReadRule ==
    kind = "Session" =>
        /\ last.acted =>
              /\ sessions[last.from] = last.rev
              /\ \A x \in Sessions \ {last.from} : sessions[x] = last.preSessions[x]
        /\ \A s \in Sessions :
              valid_revisions(kind, states, sessions, s)
                = {r \in Revisions(states) : sessions[s] = NoSession \/ r >= sessions[s]}

C6_Witness ==
    /\ kind = "Session"
    /\ last.acted
    /\ last.from = 2
    /\ sessions[1] # NoSession
    /\ sessions[2] > sessions[1]
    /\ Len(states) >= 3
    /\ valid_revisions(kind, states, sessions, 1) # valid_revisions(kind, states, sessions, 2)

\* C7: the session history discards a view only when every recorded session's
\* high-water is strictly greater than the view's revision; the retained list is
\* never empty, holds the max_revision view, and valid_revisions(s) is non-empty for
\* every session.
C7_SessionCollectionSafe ==
    kind = "Session" =>
        /\ err = "none"
        /\ Len(states) >= 1
        /\ \A s \in Sessions : valid_revisions(kind, states, sessions, s) # {}
        /\ last.acted =>
              /\ max_revision(states) = last.rev
              /\ \A r \in Revisions(last.pre) \ Revisions(states) :
                    \A x \in Sessions : sessions[x] # NoSession => sessions[x] > r

C7_Witness ==
    /\ kind = "Session"
    /\ last.acted
    /\ Revisions(last.pre) \ Revisions(states) # {}
    /\ \A x \in Sessions : sessions[x] # NoSession

\* C8: a change whose baseline is the tail appends the mutated view as the new tail;
\* when the chain (the views after the committed first one, the new tail included)
\* is longer than commit_every, the new tail is the only view retained.
C8_OptimisticExtendCommit ==
    (kind \in OptimisticKinds /\ last.acted /\ BaselineIndex = Len(last.pre)) =>
        /\ Content(Last(states))
             = Content(ApplyOperation(Last(last.pre), last.change.operation))
        /\ Last(states).revision = last.rev
        /\ IF kind = "OptimisticLinear" /\ Len(last.pre) > param
           THEN Len(states) = 1
           ELSE SubSeq(states, 1, Len(states) - 1) = last.pre

C8_Witness ==
    /\ kind = "OptimisticLinear"
    /\ param = 2
    /\ last.acted
    /\ BaselineIndex = Len(last.pre)
    /\ Len(last.pre) = 3
    /\ Len(states) = 1

\* C9: a change whose baseline is retained but is not the tail leaves exactly two
\* views: the baseline view, unchanged, then the baseline with the operation applied;
\* every view of the losing branch is gone and the tail shows none of its effects.
C9_OptimisticRollback ==
    (kind \in OptimisticKinds /\ last.acted
        /\ BaselineIndex # 0 /\ BaselineIndex < Len(last.pre)) =>
        /\ Len(states) = 2
        /\ states[1] = last.pre[BaselineIndex]
        /\ Content(states[2])
             = Content(ApplyOperation(last.pre[BaselineIndex], last.change.operation))
        /\ states[2].revision = last.rev

C9_Witness ==
    /\ kind = "OptimisticLinear"
    /\ last.acted
    /\ BaselineIndex = 1
    /\ Len(last.pre) = 3
    /\ Content(last.pre[1]) # Content(last.pre[2])
    /\ Content(states[2]) # Content(ApplyOperation(Last(last.pre), last.change.operation))

\* C10 (as stated): under every strategy other than Linearizable the write is
\* applied to the latest view and extends the history, whatever its baseline.
C10_WriteOnLatest ==
    (last.acted /\ kind \notin {"Strong", "Linearizable"}) =>
        /\ Content(Last(states))
             = Content(ApplyOperation(Last(last.pre), last.change.operation))
        /\ last.rev = max_revision(last.pre) + 1

\* C10 (amended): under Bounded, Session and Eventual the write is applied to the
\* latest view and extends the history, whatever its baseline; under OptimisticLinear
\* it is applied to the view at the change's baseline revision.
C10_WriteOnLatestOrBaseline ==
    last.acted =>
        /\ kind \in {"Bounded", "Session", "Eventual"} =>
              /\ Content(Last(states))
                   = Content(ApplyOperation(Last(last.pre), last.change.operation))
              /\ last.rev = max_revision(last.pre) + 1
              /\ Last(states).revision = last.rev
        /\ kind \in OptimisticKinds =>
              Content(Last(states))
                = Content(ApplyOperation(ViewAt(last.pre, last.change.revision),
                                         last.change.operation))

C10_Witness ==
    /\ kind = "Eventual"
    /\ last.acted
    /\ last.change.revision < max_revision(last.pre)
    /\ Content(ViewAt(last.pre, last.change.revision)) # Content(Last(last.pre))
    /\ Content(Last(states)) # Content(Last(last.pre))


\* The entries are strictly sorted by name.
StrictlySorted(rs) == \A i \in 1..(Len(rs) - 1) : rs[i].name < rs[i + 1].name

\* Revision::try_from(&str), on the strings of the revisions a run issues.
RevisionOf(str) == CHOOSE r \in 0..(MaxCalls + 1) : Revision_to_string(r) = str

\* The condition the claim gives for Err, on the entry stored under the name before
\* the call and the object written.
Rejects(existing, res) ==
    /\ existing # NoResource
    /\ \/ existing.uid # res.uid
       \/ res.resource_version # "" /\ res.resource_version # existing.resource_version

\* C11: Resources::insert returns Err exactly when an entry of the same name exists
\* and its uid differs from the incoming one, or the incoming resource_version is
\* non-empty and differs from the stored one; an Err leaves the collection as it was.
C11_InsertErrExactly ==
    [][rlast'.op = "insert" =>
          /\ (~rlast'.ok) <=> Rejects(Stored(resources, rlast'.res.name), rlast'.res)
          /\ (~rlast'.ok) => resources' = resources]_vars

\* An insert was rejected for its stale resource_version alone.
C11_Witness ==
    /\ rlast.op = "insert"
    /\ ~rlast.ok
    /\ rlast.existing.uid = rlast.res.uid
    /\ Len(resources) >= 2

\* C12: every stored resource's resource_version is the string form of the revision
\* passed to its most recent successful insert; under Linearizable history a
\* successful write over an entry leaves a strictly greater resource_version.
C12_VersionIsLastWrite ==
    /\ \A i \in 1..Len(resources) :
          /\ written[resources[i].name] # NoRevision
          /\ resources[i].resource_version = Revision_to_string(written[resources[i].name])
    /\ (rlast.op = "insert" /\ rlast.ok /\ rlast.existing # NoResource) =>
          RevisionOf(Stored(resources, rlast.name).resource_version)
              > RevisionOf(rlast.existing.resource_version)

\* An entry was rewritten by a caller that sent the stored resource_version, beside
\* an entry written earlier.
C12_Witness ==
    /\ rlast.op = "insert"
    /\ rlast.ok
    /\ rlast.existing # NoResource
    /\ rlast.res.resource_version # ""
    /\ \E i \in 1..Len(resources) : resources[i].resource_version # Revision_to_string(rlast.revision)

\* C13: over two successive successful inserts under one name the stored generation
\* does not decrease, and it increases exactly when the incoming spec differs from
\* the stored one, whatever generation the caller sent.
C13_GenerationFollowsSpec ==
    (rlast.op = "insert" /\ rlast.ok /\ rlast.existing # NoResource) =>
        LET now == Stored(resources, rlast.name).generation
            before == rlast.existing.generation
        IN /\ now >= before
           /\ (now > before) <=> (rlast.res.spec # rlast.existing.spec)

\* C14: after any calls of insert, remove and retain the entries are strictly sorted
\* by name (so no two share one), and get(name) finds a resource exactly when the
\* name was inserted and not removed since.
C14_SortedAndFound ==
    /\ StrictlySorted(resources)
    /\ \A n \in Names : Resources_has(resources, n) <=> written[n] # NoRevision

\* Three entries, the middle one inserted last.
C14_Witness ==
    /\ Len(resources) = 3
    /\ rlast.op = "insert"
    /\ rlast.name = 2
    /\ rlast.existing = NoResource

\* The action is an UpdatePod that leaves an active pod without the tracking finalizer.
StripsActive(action) ==
    action.type = "UpdatePod" /\ ~action.pod.finalizer /\ is_pod_active(action.pod)

NewlyFinished ==
    /\ JobControllerId \in cluster.controllers
    /\ LET r == reconcile(cluster.job, cluster.pods) IN
          r.new_succeeded # <<>> \/ r.new_failed # <<>>

\* Every pod that carries the finalizer and is terminal is in an uncounted list.
Recorded ==
    \A i \in 1..Len(cluster.pods) :
        (cluster.pods[i].finalizer /\ cluster.pods[i].phase \in {"Succeeded", "Failed"}) =>
            cluster.pods[i].uid \in
                cluster.job.status.uncounted_terminated_pods.succeeded
                    \cup cluster.job.status.uncounted_terminated_pods.failed

\* C17: the tracking protocol runs: a terminal pod that reconcile finds newly
\* finished has its uid recorded in status.uncounted_terminated_pods (the first
\* stage, before its finalizer is removed and it is counted).
C17_FinishedPodsGetRecorded == NewlyFinished ~> Recorded

\* C18: when reconcile has no further action for the Job (no pod action, no status
\* update), status.active is the number of active pods and status.ready the number
\* of ready pods it observed.
C18_StableStatusMatches ==
    (/\ jlast.reconciled
     /\ jlast.action = NoAction
     /\ jlast.rec.managed = NoAction
     /\ jlast.rec.finished_condition = NoCondition
     /\ ~jlast.rec.needs_status_update) =>
        /\ jlast.view.job.status.active = jlast.rec.active
        /\ jlast.view.job.status.ready = jlast.rec.ready

\* The Job controller is registered and the completion rule holds of the view:
\* no active pod, and succeeded > 0 (completions unset) or >= completions (set).
Completable ==
    /\ JobControllerId \in cluster.controllers
    /\ reconcile(cluster.job, cluster.pods).finished_condition.type = "Complete"

HasComplete ==
    \E i \in 1..Len(cluster.job.status.conditions) :
        /\ cluster.job.status.conditions[i].type = "Complete"
        /\ cluster.job.status.conditions[i].status = "True"

\* C19: under fair scheduling of the controller's steps, a Job whose completion
\* rule holds eventually has the condition Complete(True).
C19_EventuallyComplete == Completable ~> HasComplete

\* Every pod of the latest view has node_name set.
AllScheduled ==
    \A p \in DOMAIN Last(states).pods : Last(states).pods[p].node_name # NoNode

Covered(list) == UNION {list[k][1]..list[k][2] : k \in 1..Len(list)}

\* Sorted, and no two consecutive intervals overlap or touch.
Separated(list) ==
    /\ \A k \in 1..Len(list) : list[k][1] <= list[k][2]
    /\ \A k \in 1..(Len(list) - 1) : list[k][2] + 1 < list[k + 1][1]

\* C22: merge of two sorted interval lists is a sorted list of intervals that
\* neither overlap nor touch and covers exactly the indexes of both lists; merging
\* with b and then with c equals merging with the indexes of b and c together.
C22_MergeIsUnion ==
    merged.acted =>
        /\ Separated(merged.ab)
        /\ Covered(merged.ab) = Covered(merged.oi) \cup Covered(merged.b)
        /\ merged.ab_c = merged.a_bc


C23_OneChangePerStep ==
    [][crashes' = crashes =>
          /\ writes' <= writes + 1
          /\ max_revision(states') <= max_revision(states) + 1]_vars


\* C25: actions(state) holds a ControllerStep of a controller only with a change
\* that its step returned: no ControllerStep is offered without a change.
C25_NoEmptyControllerStep ==
    \A a \in actions : a.type = "ControllerStep" => a.changes # <<>>


\* C24: the step of the Scheduler and of the Job controller on a view in which
\* the controller is not registered returns its ControllerJoin and nothing else.
C24_JoinBeforeActing ==
    /\ \A a \in actions :
          (/\ a.type = "ControllerStep"
           /\ Controllers[a.i] = "Scheduler"
           /\ a.i \notin a.view.controllers)
              => a.changes = <<Change(a.view.revision, ControllerJoin(a.i))>>
    /\ (jlast.acted /\ JobControllerId \notin jlast.view.controllers)
          => /\ jlast.action = JobControllerAction("ControllerJoin", NoAction.pod)
             /\ ~jlast.panics

\* The Job controller has just joined, and the Scheduler is offered its join on a
\* view with a node and unscheduled pods.
C24_Witness ==
    /\ jlast.acted
    /\ JobControllerId \notin jlast.view.controllers
    /\ jlast.action.type = "ControllerJoin"
    /\ \E a \in actions :
          /\ a.type = "ControllerStep"
          /\ Controllers[a.i] = "Scheduler"
          /\ a.i \notin a.view.controllers
          /\ DOMAIN a.view.nodes # {}
          /\ \E p \in DOMAIN a.view.pods : a.view.pods[p].node_name = NoNode


\* C26: NodeCrash(n) removes node n and the pods assigned to n, adds one to the
\* revision and leaves the other nodes, the other pods and the controllers as they
\* were; the driver offers it for every ready node of a view and applies it at the
\* max revision.
C26_NodeCrashFrame ==
    /\ (last.acted /\ last.change.operation.type = "NodeCrash" /\ err = "none") =>
          LET n == last.change.operation.id
              pre == Last(last.pre)
              post == Last(states)
          IN /\ n \notin DOMAIN post.nodes
             /\ \A m \in DOMAIN pre.nodes \ {n} :
                   m \in DOMAIN post.nodes /\ post.nodes[m] = pre.nodes[m]
             /\ DOMAIN post.nodes \subseteq DOMAIN pre.nodes
             /\ DOMAIN post.pods = {p \in DOMAIN pre.pods : pre.pods[p].node_name # n}
             /\ \A p \in DOMAIN post.pods : post.pods[p] = pre.pods[p]
             /\ post.controllers = pre.controllers
             /\ post.revision = pre.revision + 1
             /\ last.change.revision = max_revision(last.pre)
    /\ \A a \in actions : \A n \in DOMAIN a.view.nodes :
          a.view.nodes[n].ready =>
              \E c \in actions : c.type = "NodeCrash" /\ c.node = n /\ c.view = a.view

\* A crash of one of two nodes, a pod on each of them.
C26_Witness ==
    /\ last.acted
    /\ last.change.operation.type = "NodeCrash"
    /\ err = "none"
    /\ Cardinality(DOMAIN Last(last.pre).nodes) = 2
    /\ \E p, q \in DOMAIN Last(last.pre).pods :
          /\ Last(last.pre).pods[p].node_name = last.change.operation.id
          /\ Last(last.pre).pods[q].node_name \notin {NoNode, last.change.operation.id}
    /\ Cardinality(DOMAIN Last(states).pods) = 1


\* C27: a registered Scheduler's step returns SchedulePod(p, n) only, p a pod
\* without node_name in the view it saw and n a node of that view that runs no more
\* pods than any other node of it; on a view without nodes it returns nothing.
C27_SchedulesUnsetOnLeastLoaded ==
    \A a \in actions :
        (/\ a.type = "ControllerStep"
         /\ Controllers[a.i] = "Scheduler"
         /\ a.i \in a.view.controllers)
            => /\ \A k \in 1..Len(a.changes) :
                     LET op == a.changes[k].operation IN
                     /\ op.type = "SchedulePod"
                     /\ op.pod \in DOMAIN a.view.pods
                     /\ a.view.pods[op.pod].node_name = NoNode
                     /\ op.id \in DOMAIN a.view.nodes
                     /\ \A m \in DOMAIN a.view.nodes :
                           Cardinality(a.view.nodes[op.id].running)
                               <= Cardinality(a.view.nodes[m].running)
               /\ DOMAIN a.view.nodes = {} => a.changes = <<>>

\* The Scheduler is offered a SchedulePod to the second node, the first one
\* running a pod.
C27_Witness ==
    \E a \in actions :
        /\ a.type = "ControllerStep"
        /\ Controllers[a.i] = "Scheduler"
        /\ a.i \in a.view.controllers
        /\ DOMAIN a.view.nodes = SeedNodeIds
        /\ a.view.nodes[1].running # {}
        /\ \E k \in 1..Len(a.changes) :
              a.changes[k].operation.type = "SchedulePod" /\ a.changes[k].operation.id = 2


\* C28: the Node's step returns NodeJoin exactly when its node is not in the view;
\* with the node in the view it returns at most a RunPod of a pod that is assigned
\* to the node and not in the node's running set, and nothing once every assigned
\* pod is running.
C28_NodeStepQuiescent ==
    \A a \in actions :
        (a.type = "ControllerStep" /\ Controllers[a.i] = "Node") =>
            IF a.i \notin DOMAIN a.view.nodes
            THEN a.changes = <<Change(a.view.revision, NodeJoin(a.i))>>
            ELSE /\ Len(a.changes) <= 1
                 /\ \A k \in 1..Len(a.changes) :
                       LET op == a.changes[k].operation IN
                       /\ op.type = "RunPod"
                       /\ op.id = a.i
                       /\ op.pod \in DOMAIN a.view.pods
                       /\ a.view.pods[op.pod].node_name = a.i
                       /\ op.pod \notin a.view.nodes[a.i].running
                 /\ (\A p \in DOMAIN a.view.pods :
                        a.view.pods[p].node_name = a.i => p \in a.view.nodes[a.i].running)
                       => a.changes = <<>>


\* The first condition of the type with status True, NoCondition without one.
TrueCondition(conditions, cond_type) ==
    IF \E i \in 1..Len(conditions) :
          conditions[i].type = cond_type /\ conditions[i].status = "True"
    THEN conditions[SetMin({i \in 1..Len(conditions) :
                               conditions[i].type = cond_type /\ conditions[i].status = "True"})]
    ELSE NoCondition

\* The reconcile of the last step came to its condition without a panic.
Derived == jlast.acted /\ jlast.reconciled /\ ~jlast.rec.unwrap_panics

\* C29: the failure condition reconcile derives is Failed(True) with the reason of
\* a FailureTarget condition that is True; else, the backoff limit being
\* exceeded, Failed(True, BackoffLimitExceeded); else none.  (The Jobs have no
\* pod failure policy and no deadline: rules 2 and 4 match none of them.)
C29_ConditionPriority ==
    Derived =>
        LET job == jlast.view.job
            target == TrueCondition(job.status.conditions, "FailureTarget")
            got == jlast.rec.finished_condition
        IN IF target # NoCondition
           THEN got = new_condition("Failed", "True", target.reason)
           ELSE IF \/ jlast.rec.failed > unwrap_or_default(job.spec.backoff_limit)
                   \/ /\ job.spec.backoff_limit # NoValue
                      /\ past_backoff_limit_on_failure(job, jlast.view.pods)
           THEN got = new_condition("Failed", "True", "BackoffLimitExceeded")
           ELSE got.type \in {"None", "Complete"}


\* The container restarts of the pods that are Pending or Running.
RECURSIVE RestartSum(_)
RestartSum(pods) ==
    IF pods = <<>> THEN 0
    ELSE (IF Head(pods).phase \in {"Pending", "Running"} THEN Head(pods).restart_count ELSE 0)
             + RestartSum(Tail(pods))

\* C30: without a FailureTarget condition, reconcile derives Failed(True,
\* BackoffLimitExceeded) exactly when failed > backoffLimit or, the restart policy
\* being OnFailure, the restarts of the Pending and Running pods are more than
\* backoffLimit.
C30_BackoffRule ==
    (Derived /\ find_condition_by_type(jlast.view.job.status.conditions, "FailureTarget") = 0)
        => LET job == jlast.view.job
               limit == unwrap_or_default(job.spec.backoff_limit)
           IN (jlast.rec.finished_condition
                   = new_condition("Failed", "True", "BackoffLimitExceeded"))
              <=> \/ jlast.rec.failed > limit
                  \/ /\ job.spec.restart_policy = "OnFailure"
                     /\ RestartSum(jlast.view.pods) > limit


\* The view a write was applied to: the one at its baseline under the optimistic
\* histories, the latest one under the others.
AppliedOn ==
    IF kind \in OptimisticKinds THEN ViewAt(last.pre, last.change.revision)
    ELSE Last(last.pre)

\* C37: no transition takes a pod that has a node_name in the latest view to
\* another node: a pod that is in the latest view before and after, with a
\* node_name both times, has the same one.
C37_NodeNameStable ==
    [][\A p \in DOMAIN Last(states).pods \cap DOMAIN Last(states').pods :
          (Last(states).pods[p].node_name # NoNode
              /\ Last(states').pods[p].node_name # NoNode) =>
              Last(states').pods[p].node_name = Last(states).pods[p].node_name]_vars


\* C38: no RunPod of the driver is applied to a view without its node: apply never
\* fails on the node lookup.
C38_RunPodFindsNode ==
    ~(err = "apply" /\ last.change.operation.type = "RunPod")


\* C40: a NodeJoin(i) applied to a view that has node i leaves the running set of
\* node i and every pod as they were.
C40_NodeJoinIdempotent ==
    (/\ last.acted
     /\ last.change.operation.type = "NodeJoin"
     /\ last.change.operation.id \in DOMAIN AppliedOn.nodes) =>
        /\ Last(states).nodes[last.change.operation.id].running
              = AppliedOn.nodes[last.change.operation.id].running
        /\ Last(states).pods = AppliedOn.pods


\* The view shows the effect of the operation.
Reflected(view, op) ==
    CASE op.type = "NodeJoin" -> op.id \in DOMAIN view.nodes
      [] op.type = "ControllerJoin" -> op.id \in view.controllers
      [] op.type = "SchedulePod" ->
            op.pod \in DOMAIN view.pods => view.pods[op.pod].node_name = op.id
      [] op.type = "RunPod" ->
            op.id \in DOMAIN view.nodes /\ op.pod \in view.nodes[op.id].running
      [] OTHER -> TRUE

\* The changes of the ControllerStep of controller i on the view at revision.
StepChanges(i, revision) == Controllers_step(i, state_at(kind, states, revision), local[i])

\* C39: after a ControllerStep that returned, the latest view shows the effect of
\* every operation the step carried.
C39_StepAppliedWhole ==
    [][\A i \in Sessions, revision \in 0..MaxWrites :
          (ControllerStep(i, revision) /\ err' = "none") =>
              \A k \in 1..Len(StepChanges(i, revision)) :
                  Reflected(Last(states'), StepChanges(i, revision)[k].operation)]_vars


\* The indexes of the succeeded pods that hold the finalizer and have an index
\* below completions.
NewlySucceededIndexes(job, pods) ==
    {pods[k].index : k \in {j \in 1..Len(pods) :
                               /\ pods[j].phase = "Succeeded"
                               /\ pods[j].finalizer
                               /\ pods[j].index \in 0..(job.spec.completions - 1)}}

\* The succeeded indexes of an Indexed Job: those of its status and the new ones.
SucceededIndexSet(job, pods) ==
    (Covered(job.status.completed_indexes) \cap 0..(job.spec.completions - 1))
        \cup NewlySucceededIndexes(job, pods)

\* C35: for an Indexed Job the succeeded count of reconcile is the number of
\* distinct succeeded indexes.
C35_SucceededCountsIndexes ==
    (/\ jlast.acted
     /\ jlast.reconciled
     /\ jlast.view.job.spec.completion_mode = "Indexed")
        => jlast.rec.succeeded
             = Cardinality(SucceededIndexSet(jlast.view.job, jlast.view.pods))


\* The indexes of the pods that have one.
IndexesOf(pods) == {pods[k].index : k \in {j \in 1..Len(pods) : pods[j].index # NoValue}}

\* The indexes below completions that are neither succeeded nor held by an active
\* pod nor, with a pod failure policy, by a terminating pod.
PendingIndexes(c) ==
    (0..(c.completions - 1))
        \ (Covered(c.succeeded_indexes) \cup IndexesOf(c.active_pods)
              \cup IF only_replace_failed_pods(c.job)
                   THEN IndexesOf(filter_terminating_pods(c.pods)) ELSE {})

\* C34: first_pending_indexes returns the lowest pending indexes in ascending
\* order, count of them or all when there are fewer, whatever the order of the
\* active pods.
C34_LowestPendingIndexes ==
    call.acted =>
        call.result = SubSeq(SetToSeq(PendingIndexes(call)), 1,
                             IF call.count < Cardinality(PendingIndexes(call))
                             THEN call.count ELSE Cardinality(PendingIndexes(call)))


\* The number of active pods of the view.
ActiveCount(view) == Len(filter_active_pods(view.pods))

\* The upper bound of want_active: parallelism, and with completions set the
\* completions that are left.
ActiveBound(job) ==
    IF job.spec.completions = NoValue THEN unwrap_or_default(job.spec.parallelism)
    ELSE LET left == saturating_sub(job.spec.completions, job.status.succeeded)
         IN IF left > unwrap_or_default(job.spec.parallelism)
            THEN unwrap_or_default(job.spec.parallelism) ELSE left

\* A fresh Job of parallelism 1 without pods, its controller registered.
FreshJob ==
    /\ JobControllerId \in cluster.controllers
    /\ err = "none"
    /\ cluster.pods = <<>>
    /\ cluster.job.spec.parallelism = 1
    /\ ~cluster.job.spec.suspend
    /\ ~cluster.job.deletion_timestamp
    /\ cluster.job.status.succeeded = 0
    /\ cluster.job.status.uncounted_terminated_pods.succeeded = {}
    /\ cluster.job.status.conditions = <<>>

Elements(list) == {list[k] : k \in 1..Len(list)}

\* The pods of the list with completion index ix.
WithIndex(list, ix) == {q \in Elements(list) : q.index = ix}

\* C32: append_duplicated_index_pods_for_removal puts every active pod in exactly
\* one of rm and left; left holds one pod for each index below completions that the
\* pods have and nothing else, so rm holds the pods without an index, those with an
\* index of completions or more, and all but one pod of every index.
C32_SplitIsPartition ==
    (call.acted /\ call.job.spec.completion_mode = "Indexed") =>
        /\ Elements(call.split.rm) \cup Elements(call.split.left) = Elements(call.pods)
        /\ Len(call.split.rm) + Len(call.split.left) = Len(call.pods)
        /\ \A q \in Elements(call.split.left) :
              q.index \in 0..(call.job.spec.completions - 1)
        /\ \A ix \in 0..(call.job.spec.completions - 1) :
              WithIndex(call.pods, ix) # {} =>
                  Cardinality(WithIndex(call.split.left, ix)) = 1

\* Three pods: two of index 0, one of them kept, and one beyond completions.
C32_Witness ==
    /\ call.acted
    /\ call.job.spec.completion_mode = "Indexed"
    /\ Cardinality(WithIndex(call.pods, 0)) = 2
    /\ Cardinality(WithIndex(call.pods, call.job.spec.completions)) = 1
    /\ Len(call.split.rm) = 2
    /\ Len(call.split.left) = 1


\* The pods of the call that the result leaves alone.
Kept == Elements(call.pods) \ Elements(call.result)

\* The pods removed beyond those that the split removes.
Extra == Elements(call.result) \ Elements(call.split.rm)

\* C33: the order of sort_active_pods is consistent (of two pods at most one is
\* less than the other), and among the pods of one index and among the pods
\* the split leaves, no pod that is kept is less than a pod that is removed.
C33_LeastValuableRemoved ==
    call.acted =>
        /\ \A q, r \in Elements(call.pods) :
              ~(sort_active_pods_less(q, r) /\ sort_active_pods_less(r, q))
        /\ \A q \in Elements(call.split.left), r \in Elements(call.split.rm) :
              (q.index = r.index /\ q.index # NoValue) => ~sort_active_pods_less(q, r)
        /\ \A q \in Kept, r \in Extra : ~sort_active_pods_less(q, r)

\* The Suspended condition of a list of conditions, NoCondition without one.
SuspendedCondition(conditions) ==
    IF find_condition_by_type(conditions, "Suspended") = 0 THEN NoCondition
    ELSE conditions[find_condition_by_type(conditions, "Suspended")]

\* The arguments of the call of ensure_job_condition_status for a Job.
SuspendArgs(job) ==
    IF job.spec.suspend THEN JobSuspended ELSE JobResumed

\* C36: after a reconcile of a Job that does not finish in it: if the Job is
\* suspended, the step deletes one of the active pods of the view, as long as
\* there is one, and the conditions hold Suspended(True, JobSuspended); the
\* start time is reset exactly when the Suspended condition goes from True to
\* False; a Job without Suspended condition that is not suspended gets none
\* and no reset; and a second call of ensure_job_condition_status on the
\* conditions of the first, with the same arguments, reports no change.
C36_SuspendResume ==
    (jlast.acted /\ jlast.reconciled /\ jlast.rec.finished_condition = NoCondition) =>
        LET job == jlast.view.job
            rec == jlast.rec
            before == SuspendedCondition(job.status.conditions)
            after == SuspendedCondition(rec.conditions)
        IN /\ job.spec.suspend =>
                /\ rec.active > 0 =>
                      /\ err = "none"
                      /\ jlast.action.type = "DeletePod"
                      /\ \E i \in 1..Len(jlast.view.pods) :
                            /\ jlast.view.pods[i].uid = jlast.action.pod.uid
                            /\ is_pod_active(jlast.view.pods[i])
                /\ after = JobSuspended
           /\ rec.start_time_reset <=> (before.status = "True" /\ before.type = "Suspended"
                                            /\ after.status = "False")
           /\ (before = NoCondition /\ ~job.spec.suspend) =>
                (after = NoCondition /\ ~rec.start_time_reset)
           /\ ~ensure_job_condition_status(rec.conditions, "Suspended",
                    SuspendArgs(job).status, SuspendArgs(job).reason).changed

\* The parts of C36 that are about the conditions and the start time alone.
SuspendConditions ==
    (jlast.acted /\ jlast.reconciled /\ jlast.rec.finished_condition = NoCondition) =>
        LET job == jlast.view.job
            rec == jlast.rec
            before == SuspendedCondition(job.status.conditions)
            after == SuspendedCondition(rec.conditions)
        IN /\ job.spec.suspend => after = JobSuspended
           /\ rec.start_time_reset <=> (before = JobSuspended /\ after = JobResumed)
           /\ (before = NoCondition /\ ~job.spec.suspend) =>
                (after = NoCondition /\ ~rec.start_time_reset)
           /\ ~ensure_job_condition_status(rec.conditions, "Suspended",
                    SuspendArgs(job).status, SuspendArgs(job).reason).changed

\* A reconcile of a suspended Job with an active pod has been made.
SuspendedWithActive ==
    /\ jlast.acted /\ jlast.reconciled
    /\ jlast.rec.finished_condition = NoCondition
    /\ jlast.view.job.spec.suspend
    /\ jlast.rec.active > 0


=============================================================================
